---- MODULE Spec2Model ----
(***************************************************************************)
(* A model of the movie-app client:                                        *)
(*   - the Search screen's debounced, cancellable search effect            *)
(*     (src/app/(tabs)/search.tsx),                                        *)
(*   - the sign-in client: server address parsing, database resolution,    *)
(*     the process-wide session and transport, the gateway operations      *)
(*     (src/unnamed/part_003, imported as lib/odooClient),                 *)
(*   - the AuthProvider state machine (src/lib/auth.tsx).                  *)
(*                                                                         *)
(* JavaScript runs one task at a time: every action below is one segment   *)
(* of code between two awaits (or one timer / promise callback), and the   *)
(* interleavings are those of the event loop.  Text is modelled as a       *)
(* sequence of one-character strings so that trimming, splitting and       *)
(* matching are computed as the code computes them.                        *)
(***************************************************************************)
EXTENDS Integers, Sequences, FiniteSets, TLC

VARIABLES
    \* ---- Search screen (search.tsx, Search component) ----
    query,        \* useState("")            the raw text of the input
    results,      \* useState([])            the UI-facing result set
    isLoading,    \* useState(false)
    error,        \* useState(null)          "null" or a message
    effects,      \* one record per run of the search effect (its closure)
    lateSettles,  \* history: the effects whose request settled after a newer one's
    now,          \* the clock the timers run on, in milliseconds
    mounted,      \* the Search component is mounted
    \* ---- pure-function harness ----
    pin,          \* the input under evaluation
    pout,         \* the outputs computed from it
    \* ---- sign-in client (part_003, module state) ----
    activeSession,  \* let activeSession: OdooSession | null
    client,         \* let client: AxiosInstance | null
    rpcCounter,     \* let rpcCounter = 0
    \* ---- AuthProvider (auth.tsx) ----
    status,       \* useState<AuthStatus>("unauthenticated")
    session,      \* useState<OdooSession | null>(null)
    user,         \* useState<OdooUserProfile | null>(null)
    authError,    \* useState<string | null>(null), the provider's error
    \* ---- asynchronous calls in progress and the wire ----
    calls,        \* the signIn invocations: locals and position of each
    op,           \* the gateway operation followed: its locals and position
    lastRequest,  \* the request most recently handed to a transport
    lastResponse, \* the response most recently delivered to a caller
    sinceSignOut, \* history: how many signOut calls were the latest events
    \* ---- fixed-account client (search.tsx:395-854, module state) ----
    cachedUid,      \* let cachedUid: number | null = null
    legacyCounter,  \* let rpcCounter = 0
    legacyCalls,    \* the executeKw invocations: locals and position of each
    legacyRequest   \* the request most recently posted by this client

searchVars == <<query, results, isLoading, error, effects, lateSettles, now, mounted>>
pureVars == <<pin, pout>>
clientVars == <<activeSession, client, rpcCounter>>
providerVars == <<status, session, user, authError>>
legacyVars == <<cachedUid, legacyCounter, legacyCalls, legacyRequest>>
authVars == <<activeSession, client, rpcCounter, status, session, user, authError,
              calls, op, lastRequest, lastResponse, sinceSignOut>>
nonSearchVars == <<pin, pout, authVars, legacyVars>>
vars == <<query, results, isLoading, error, effects, lateSettles, now, mounted, pin, pout,
          activeSession, client, rpcCounter, status, session, user, authError,
          calls, op, lastRequest, lastResponse, sinceSignOut,
          cachedUid, legacyCounter, legacyCalls, legacyRequest>>

(***************************************************************************)
(* Bounds of the model.                                                    *)
(***************************************************************************)
MaxEdits == 2        \* query changes after mount
MaxCalls == 2        \* signIn invocations
MaxTicks == 2        \* clock ticks
TickMs == 350        \* milliseconds per clock tick

(***************************************************************************)
(* Text helpers: String.prototype.trim, toLowerCase, split, join.          *)
(***************************************************************************)
NullStr == "null"
Null == <<>>

IsSpace(c) == c = " "

RECURSIVE TrimLeft(_)
TrimLeft(s) == IF s # <<>> /\ IsSpace(Head(s)) THEN TrimLeft(Tail(s)) ELSE s

RECURSIVE TrimRight(_)
TrimRight(s) ==
    IF s # <<>> /\ IsSpace(s[Len(s)]) THEN TrimRight(SubSeq(s, 1, Len(s) - 1)) ELSE s

Trim(s) == TrimRight(TrimLeft(s))

(***************************************************************************)
(* Search screen.                                                          *)
(***************************************************************************)
DebounceMs == 350

\* search.tsx:181  const delay = trimmed.length > 0 ? 350 : 0
Delay(trimmed) == IF Len(trimmed) > 0 THEN DebounceMs ELSE 0

\* search.tsx:159-161  which gateway call runSearch makes
RequestFor(trimmed) ==
    IF Len(trimmed) > 0 THEN "searchProductTemplates" ELSE "fetchProductTemplates"

\* search.tsx:151-153,181-182  the closure one run of the effect creates
NewEffect(q, t) ==
    [ trimmed     |-> Trim(q),
      isCancelled |-> FALSE,
      timer       |-> "pending",
      createdAt   |-> t,
      delay       |-> Delay(Trim(q)),
      due         |-> t + Delay(Trim(q)),
      request     |-> "none",
      call        |-> "none",
      response    |-> <<>> ]

\* A variant of the cleanup that forgets clearTimeout.
CleanupKeepsTimer(eff) == [eff EXCEPT !.isCancelled = TRUE]

\* A variant of the cleanup that forgets isCancelled = true.
CleanupClearsTimerOnly(eff) ==
    [eff EXCEPT !.timer = IF @ = "pending" THEN "cleared" ELSE @]

\* search.tsx:184-187  the effect's cleanup: isCancelled = true; clearTimeout
Cleanup(eff) ==
    [eff EXCEPT !.isCancelled = TRUE,
                !.timer = IF @ = "pending" THEN "cleared" ELSE @]

\* A variant of the staleness guard that never discards.
IsStaleNever(e) == FALSE

\* search.tsx:165,170,176  if (isCancelled) return;
IsStale(e) == effects[e].isCancelled

Queries ==
    { <<>>, <<" ">>, <<"a", "b", " ">>, <<"a", "b", "c">> }

\* What the gateway can answer to the request of effect e: a list of
\* products (tagged with the request they answer) or a failure.
Products(e) == { <<>>, <<[id |-> e, name |-> effects[e].trimmed]>> }
Failures == { "Not authenticated with Odoo. Please sign in again." }

Settled(e) == effects[e].request \in {"resolved", "rejected"}
NewerSettled(e) == \E f \in DOMAIN effects : f > e /\ Settled(f)

SearchIdle ==
    /\ query = <<>>
    /\ results = <<>>
    /\ isLoading = FALSE
    /\ error = NullStr
    /\ now = 0
    /\ mounted = TRUE
    /\ effects = << NewEffect(<<>>, 0) >>
    /\ lateSettles = {}

\* search.tsx:263 / 145-149  onChangeText={setQuery}; the effect depends on
\* [query], so React runs the previous cleanup and then the effect again.
SetQuery(q) ==
    /\ mounted
    /\ q # query
    /\ Len(effects) <= MaxEdits
    /\ query' = q
    /\ effects' = Append([effects EXCEPT ![Len(effects)] = Cleanup(@)], NewEffect(q, now))
    /\ UNCHANGED <<results, isLoading, error, lateSettles, now, mounted>>
    /\ UNCHANGED nonSearchVars

\* Unmounting the screen runs the last effect's cleanup.
Unmount ==
    /\ mounted
    /\ mounted' = FALSE
    /\ effects' = [effects EXCEPT ![Len(effects)] = Cleanup(@)]
    /\ UNCHANGED <<query, results, isLoading, error, lateSettles, now>>
    /\ UNCHANGED nonSearchVars

Tick ==
    /\ now < MaxTicks * TickMs
    /\ now' = now + TickMs
    /\ UNCHANGED <<query, results, isLoading, error, effects, lateSettles, mounted>>
    /\ UNCHANGED nonSearchVars

\* search.tsx:155-162,182  the timer fires: runSearch sends the request
TimerFires(e) ==
    /\ effects[e].timer = "pending"
    /\ now >= effects[e].due
    /\ isLoading' = TRUE
    /\ error' = NullStr
    /\ effects' = [effects EXCEPT ![e].timer = "fired",
                                  ![e].request = "inflight",
                                  ![e].call = RequestFor(effects[e].trimmed)]
    /\ UNCHANGED <<query, results, lateSettles, now, mounted>>
    /\ UNCHANGED nonSearchVars

\* search.tsx:164-168,175-178  .then then .finally
RequestResolves(e, products) ==
    /\ effects[e].request = "inflight"
    /\ effects' = [effects EXCEPT ![e].request = "resolved", ![e].response = products]
    /\ lateSettles' = IF NewerSettled(e) THEN lateSettles \cup {e} ELSE lateSettles
    /\ IF IsStale(e)
         THEN UNCHANGED <<results, error, isLoading>>
         ELSE /\ results' = products
              /\ error' = NullStr
              /\ isLoading' = FALSE
    /\ UNCHANGED <<query, now, mounted>>
    /\ UNCHANGED nonSearchVars

\* search.tsx:169-178  .catch then .finally
RequestRejects(e, message) ==
    /\ effects[e].request = "inflight"
    /\ effects' = [effects EXCEPT ![e].request = "rejected"]
    /\ lateSettles' = IF NewerSettled(e) THEN lateSettles \cup {e} ELSE lateSettles
    /\ IF IsStale(e)
         THEN UNCHANGED <<results, error, isLoading>>
         ELSE /\ error' = message
              /\ results' = <<>>
              /\ isLoading' = FALSE
    /\ UNCHANGED <<query, now, mounted>>
    /\ UNCHANGED nonSearchVars

SearchNext ==
    \/ \E q \in Queries : SetQuery(q)
    \/ Unmount
    \/ Tick
    \/ \E e \in DOMAIN effects : TimerFires(e)
    \/ \E e \in DOMAIN effects : \E p \in Products(e) : RequestResolves(e, p)
    \/ \E e \in DOMAIN effects : \E m \in Failures : RequestRejects(e, m)

PureIdle ==
    /\ pin = Null
    /\ pout = Null

(***************************************************************************)
(* More text helpers.                                                      *)
(***************************************************************************)
\* The value JavaScript calls undefined, where a text is expected.
Undefined == <<"undefined">>

\* if (value): a text is truthy when it is defined and not empty
Truthy(s) == s # Undefined /\ s # <<>>

\* String.prototype.toLowerCase on the letters the inputs use
LowerOf(c) ==
    CASE c = "W" -> "w" [] c = "E" -> "e" [] c = "B" -> "b"
      [] c = "H" -> "h" [] c = "T" -> "t" [] c = "P" -> "p" [] c = "S" -> "s"
      [] OTHER -> c

ToLower(s) == [i \in 1..Len(s) |-> LowerOf(s[i])]

StartsWith(s, prefix) ==
    Len(s) >= Len(prefix) /\ SubSeq(s, 1, Len(prefix)) = prefix

Drop(s, n) == SubSeq(s, n + 1, Len(s))

Contains(s, c) == \E i \in 1..Len(s) : s[i] = c

\* the longest prefix of s holding none of the characters of stops
RECURSIVE TakeUntil(_, _)
TakeUntil(s, stops) ==
    IF s = <<>> \/ Head(s) \in stops THEN <<>>
    ELSE <<Head(s)>> \o TakeUntil(Tail(s), stops)

\* String.prototype.split on a set of one-character separators
RECURSIVE Split(_, _)
Split(s, seps) ==
    LET first == TakeUntil(s, seps)
    IN  IF Len(first) = Len(s) THEN <<first>>
        ELSE <<first>> \o Split(Drop(s, Len(first) + 1), seps)

\* Array.prototype.filter(Boolean) on a list of texts
NonEmpty(list) == SelectSeq(list, LAMBDA x : x # <<>>)

\* Array.prototype.join
RECURSIVE Join(_, _)
Join(list, sep) ==
    IF list = <<>> THEN <<>>
    ELSE IF Len(list) = 1 THEN list[1]
    ELSE list[1] \o sep \o Join(Tail(list), sep)

\* value.replace(/\/+/g, "/")
RECURSIVE CollapseSlashes(_)
CollapseSlashes(s) ==
    IF Len(s) < 2 THEN s
    ELSE IF s[1] = "/" /\ s[2] = "/" THEN CollapseSlashes(Tail(s))
    ELSE <<s[1]>> \o CollapseSlashes(Tail(s))

\* value.replace(/\/+$/, "")
RECURSIVE StripTrailingSlashes(_)
StripTrailingSlashes(s) ==
    IF s # <<>> /\ s[Len(s)] = "/" THEN StripTrailingSlashes(SubSeq(s, 1, Len(s) - 1))
    ELSE s

\* value.replace(/\+/g, " ")
PlusToSpace(s) == [i \in 1..Len(s) |-> IF s[i] = "+" THEN " " ELSE s[i]]

\* decodeURIComponent on the escapes the inputs use: "%20" is a space; any
\* other "%" is a malformed escape, on which decodeURIComponent throws.
RECURSIVE Decodable(_)
Decodable(s) ==
    IF s = <<>> THEN TRUE
    ELSE IF Head(s) = "%"
         THEN Len(s) >= 3 /\ s[2] = "2" /\ s[3] = "0" /\ Decodable(Drop(s, 3))
         ELSE Decodable(Tail(s))

RECURSIVE DecodeURIComponent(_)
DecodeURIComponent(s) ==
    IF s = <<>> THEN <<>>
    ELSE IF Head(s) = "%" THEN <<" ">> \o DecodeURIComponent(Drop(s, 3))
    ELSE <<Head(s)>> \o DecodeURIComponent(Tail(s))

\* part_003:215-221
safeDecode(value) == IF Decodable(value) THEN DecodeURIComponent(value) ELSE value

(***************************************************************************)
(* Server address parsing and database extraction (part_003:173-297).      *)
(***************************************************************************)
KNOWN_ODOO_SUFFIXES ==
    { <<"o", "d", "o", "o", ".", "c", "o", "m">>,
      <<"o", "d", "o", "o", ".", "s", "h">>,
      <<"o", "d", "o", "o", ".", "i", "n">>,
      <<"o", "d", "o", "o", "-", "o", "n", "l", "i", "n", "e", ".", "c", "o", "m">> }

RESERVED_PATH_SEGMENTS ==
    { <<"w", "e", "b">>,
      <<"s", "a", "a", "s">>,
      <<"x", "m", "l", "r", "p", "c">>,
      <<"j", "s", "o", "n", "r", "p", "c">> }

HttpPrefix == <<"h", "t", "t", "p", ":", "/", "/">>
HttpsPrefix == <<"h", "t", "t", "p", "s", ":", "/", "/">>

\* part_003:173  /^https?:\/\//i.test(value)
HasProtocol(value) ==
    StartsWith(ToLower(value), HttpPrefix) \/ StartsWith(ToLower(value), HttpsPrefix)

ensureProtocol(value) == IF HasProtocol(value) THEN value ELSE HttpsPrefix \o value

\* part_003:183-201.  The pattern
\*   ^(https?):\/\/([^\/?#]+)(\/[^?#]*)?(\?[^#]*)?(#.*)?$
\* matches exactly when the host, the text up to the first of / ? #, is not
\* empty; the groups then split the rest at the first ? and the first #.
parseInputUrl(value) ==
    LET trimmed == Trim(value)
        normalized == ensureProtocol(trimmed)
        isHttps == StartsWith(ToLower(normalized), HttpsPrefix)
        rest == Drop(normalized, IF isHttps THEN Len(HttpsPrefix) ELSE Len(HttpPrefix))
        host == TakeUntil(rest, {"/", "?", "#"})
        afterHost == Drop(rest, Len(host))
        path == IF afterHost # <<>> /\ Head(afterHost) = "/"
                  THEN TakeUntil(afterHost, {"?", "#"}) ELSE <<>>
        afterPath == Drop(afterHost, Len(path))
        qry == IF afterPath # <<>> /\ Head(afterPath) = "?"
                 THEN TakeUntil(afterPath, {"#"}) ELSE <<>>
        hash == Drop(afterPath, Len(qry))
    IN  IF trimmed = <<>> THEN Null
        ELSE IF host = <<>> THEN Null
        ELSE [ protocol |-> IF isHttps THEN "https" ELSE "http",
               host |-> host, path |-> path, query |-> qry, hash |-> hash ]

\* A variant that trims the path and leaves its slashes alone.
normalizePathTrimOnly(path) == Trim(path)

\* part_003:203-213
normalizePath(path) ==
    LET trimmedPath == Trim(path)
        normalized == CollapseSlashes(trimmedPath)
        withoutTrailing == StripTrailingSlashes(normalized)
        segments == NonEmpty(Split(withoutTrailing, {"/"}))
    IN  IF path = <<>> THEN <<>>
        ELSE IF trimmedPath = <<>> THEN <<>>
        ELSE IF Len(segments) > 0 THEN <<"/">> \o Join(segments, <<"/">>) ELSE <<>>

\* part_003:223-237  the list of (key, value) pairs parseParams assigns, in
\* order; a later assignment to the same key replaces an earlier one.
ParamPair(pair) ==
    LET parts == Split(pair, {"="})
        rawKey == parts[1]
        rawValue == IF Len(parts) >= 2 THEN parts[2] ELSE <<>>
    IN  [ key |-> safeDecode(Trim(rawKey)), value |-> safeDecode(PlusToSpace(rawValue)) ]

parseParams(segment) ==
    LET clean == IF segment # <<>> /\ Head(segment) \in {"?", "#"} THEN Tail(segment)
                 ELSE segment
        pairs == NonEmpty(Split(clean, {"&", ";"}))
        assigned == [i \in 1..Len(pairs) |-> ParamPair(pairs[i])]
    IN  IF segment = <<>> \/ clean = <<>> THEN <<>>
        ELSE SelectSeq(assigned, LAMBDA kv : kv.key # <<>>)

\* params[name]: the value last assigned to the key, or undefined
RECURSIVE Param(_, _)
Param(params, name) ==
    IF params = <<>> THEN Undefined
    ELSE IF params[Len(params)].key = name THEN params[Len(params)].value
    ELSE Param(SubSeq(params, 1, Len(params) - 1), name)

\* params.db?.trim()
TrimmedParam(params, name) ==
    IF Param(params, name) = Undefined THEN Undefined ELSE Trim(Param(params, name))

DbKey == <<"d", "b">>
Www == <<"w", "w", "w">>

\* part_003:285-294 with the host test of line 288 read as written
HostCandidate(host) ==
    LET hostSegments == NonEmpty(Split(host, {"."}))
        suffix == Join(SubSeq(hostSegments, Len(hostSegments) - 1, Len(hostSegments)), <<".">>)
    IN  IF Len(hostSegments) >= 2
           /\ (suffix \in KNOWN_ODOO_SUFFIXES \/ Len(hostSegments) > 2)
           /\ Truthy(hostSegments[1])
           /\ ToLower(hostSegments[1]) # Www
        THEN hostSegments[1]
        ELSE Undefined

\* part_003:277-283
PathCandidate(path) ==
    LET pathSegments == NonEmpty(Split(normalizePath(path), {"/"}))
    IN  IF Len(pathSegments) = 1 /\ ToLower(pathSegments[1]) \notin RESERVED_PATH_SEGMENTS
        THEN pathSegments[1]
        ELSE Undefined

\* part_003:266-275
HashCandidate(hash) ==
    LET fromHash == TrimmedParam(parseParams(hash), DbKey)
        hashValue == Trim(IF hash # <<>> /\ Head(hash) = "#" THEN Tail(hash) ELSE hash)
    IN  IF Truthy(fromHash) THEN fromHash
        ELSE IF hashValue # <<>> /\ ~Contains(hashValue, "=") /\ ~Contains(hashValue, "&")
        THEN hashValue
        ELSE Undefined

\* part_003:254-297
extractDatabaseFromUrl(raw) ==
    LET parsed == parseInputUrl(raw)
    IN  IF parsed = Null THEN Undefined
        ELSE LET fromQuery == TrimmedParam(parseParams(parsed.query), DbKey)
             IN  IF Truthy(fromQuery) THEN fromQuery
                 ELSE IF HashCandidate(parsed.hash) # Undefined THEN HashCandidate(parsed.hash)
                 ELSE IF PathCandidate(parsed.path) # Undefined THEN PathCandidate(parsed.path)
                 ELSE HostCandidate(parsed.host)

\* part_003:239-252
normalizeServerUrl(raw) ==
    LET trimmed == Trim(raw)
        parsed == parseInputUrl(trimmed)
    IN  IF trimmed = <<>> THEN [ok |-> FALSE, error |-> "Server address is required."]
        ELSE IF parsed = Null THEN [ok |-> FALSE, error |-> "Invalid server address."]
        ELSE [ok |-> TRUE,
              url |-> (IF parsed.protocol = "https" THEN HttpsPrefix ELSE HttpPrefix)
                        \o parsed.host \o normalizePath(parsed.path)]

(***************************************************************************)
(* Address evaluation: the address functions applied to a range of typed   *)
(* server addresses, each the concatenation of a scheme, a host, a path, a *)
(* query string and a fragment.                                            *)
(***************************************************************************)
UrlSchemes == { <<>>, <<"h", "t", "t", "p", ":", "/", "/">>, <<"H", "T", "T", "P", "S", ":", "/", "/">> }
UrlHosts ==
    { <<"a", "c", "m", "e", ".", "o", "d", "o", "o", ".", "c", "o", "m">>,
      <<"o", "d", "o", "o", ".", "c", "o", "m">>,
      <<"m", "y", ".", "c", "o">>,
      <<"e", "r", "p", ".", "m", "y", ".", "c", "o">>,
      <<"W", "W", "W", ".", "m", "y", ".", "c", "o">>,
      <<>> }
UrlPaths == { <<>>, <<"/">>, <<"/", "W", "E", "B">>, <<"/", "s", "h", "o", "p">>, <<"/", "/", "s", "h", "o", "p", "/">>, <<"/", "a", "/", "b">> }
UrlQueries ==
    { <<>>,
      <<"?", "d", "b", "=", "q", "d", "b">>,
      <<"?", "x", "=", "1">>,
      <<"?", "d", "b", "=", "+">>,
      <<"?", "x", "=", "1", "&", "d", "b", "=", "q", "%", "2", "0">> }
UrlHashes == { <<>>, <<"#", "d", "b", "=", "h", "d", "b">>, <<"#", "h", "d", "b">>, <<"#", "x", "=", "1">> }

UrlInputs ==
    { sc \o h \o pa \o q \o f :
        sc \in UrlSchemes, h \in UrlHosts, pa \in UrlPaths, q \in UrlQueries, f \in UrlHashes }

\* Addresses typed with blanks around or inside them, and blank addresses.
PaddedInputs ==
    { <<>>, <<" ">>, <<" ", " ">>,
      <<"m", "y", ".", "c", "o", "/", "a", "p", "p", "/", "?", "x", "=", "1", "#", "d", "b", "=", "a", "c", "m", "e">>,
      <<" ", "m", "y", ".", "c", "o", "/", "a", "p", "p", "/", "?", "x", "=", "1", "#", "d", "b", "=", "a", "c", "m", "e", " ">>,
      <<" ", "h", "t", "t", "p", ":", "/", "/", " ">>,
      <<" ", "/", "a", "p", "p">>,
      <<"m", "y", ".", "c", "o", "/", "/", "a", "/", "/", " ", "/", "?", "x", "=", "1">>,
      <<" ", "h", "t", "t", "p", ":", "/", "/", "m", "y", ".", "c", "o", "/", " ", "/", "#", "h", " ">> }

\* one evaluation of normalizeServerUrl and extractDatabaseFromUrl
EvalUrl ==
    /\ pout = Null
    /\ pout' = [ normalized |-> normalizeServerUrl(pin),
                 database |-> extractDatabaseFromUrl(pin) ]
    /\ UNCHANGED pin
    /\ UNCHANGED <<searchVars, authVars, legacyVars>>

(***************************************************************************)
(* JavaScript values as the server returns them.  A number is kept as      *)
(* twice its value, so that 1.5 is a number that is not an integer.        *)
(***************************************************************************)
JsUndefined == [t |-> "undefined"]
JsBool(b) == [t |-> "boolean", b |-> b]
JsNull == [t |-> "null"]
JsInt(n) == [t |-> "number", twice |-> 2 * n, finite |-> TRUE]
JsHalf(n) == [t |-> "number", twice |-> 2 * n + 1, finite |-> TRUE]
JsNaN == [t |-> "number", twice |-> 0, finite |-> FALSE]
JsText(s) == [t |-> "string", s |-> s]
JsArray(items) == [t |-> "array", items |-> items]
JsObject(fields) == [t |-> "object", fields |-> fields]

\* Number.isInteger
NumberIsInteger(v) == v.t = "number" /\ v.finite /\ v.twice % 2 = 0
\* Number.isFinite
NumberIsFinite(v) == v.t = "number" /\ v.finite
IntOf(v) == v.twice \div 2

\* Number(value): numbers are kept; true is 1, false and null are 0; a
\* string is 0 when blank, its value when it is all decimal digits, and
\* NaN otherwise (signs, fractions and exponents are not among the strings
\* used here); undefined, arrays of several items and objects are NaN.
Digits == <<"0", "1", "2", "3", "4", "5", "6", "7", "8", "9">>
DigitValue(ch) == (CHOOSE i \in DOMAIN Digits : Digits[i] = ch) - 1
RECURSIVE DecimalValue(_)
DecimalValue(s) ==
    IF s = <<>> THEN 0
    ELSE 10 * DecimalValue(SubSeq(s, 1, Len(s) - 1)) + DigitValue(s[Len(s)])
ToNumber(v) ==
    CASE v.t = "number" -> v
      [] v.t = "boolean" -> IF v.b THEN JsInt(1) ELSE JsInt(0)
      [] v.t = "null" -> JsInt(0)
      [] v.t = "string" ->
            IF Trim(v.s) = <<>> THEN JsInt(0)
            ELSE IF \A i \in DOMAIN Trim(v.s) : \E d \in DOMAIN Digits : Digits[d] = Trim(v.s)[i]
              THEN JsInt(DecimalValue(Trim(v.s)))
            ELSE JsNaN
      [] OTHER -> JsNaN
\* Array.isArray
IsArray(v) == v.t = "array"
\* !value
Falsy(v) ==
    \/ v.t \in {"undefined", "null"}
    \/ v.t = "boolean" /\ ~v.b
    \/ v.t = "number" /\ (v.twice = 0 \/ ~v.finite)
    \/ v.t = "string" /\ (IF "word" \in DOMAIN v THEN v.word = "" ELSE v.s = <<>>)

\* What a transport call can produce: the promise rejects (no response), or
\* a response body with an error, with a result, or with neither.
Failure == [kind |-> "failure"]
ErrorBody(message) == [kind |-> "error", message |-> message]
EmptyBody == [kind |-> "empty"]
ResultBody(value) == [kind |-> "result", value |-> value]

(***************************************************************************)
(* Sign-in client: module state and helpers (part_003:70-155).             *)
(***************************************************************************)
JsonRpcPath == <<"/", "j", "s", "o", "n", "r", "p", "c">>

\* part_003:97-106  buildClient: the transport, its base URL and identity
buildClient(baseUrl, ref) ==
    [ baseURL |-> StripTrailingSlashes(baseUrl) \o JsonRpcPath, ref |-> ref ]

\* part_003:108-114  ensureSession: does it return (TRUE) or throw (FALSE)
ensureSession(s) == s # Null

NotAuthenticated == "Not authenticated with Odoo. Please sign in again."

\* part_003:116-123  ensureClientAndSession: the transport it returns
EnsuredClient == IF client = Null THEN buildClient(activeSession.serverUrl, "lazy") ELSE client

\* part_003:86-89,130-139  a request handed to a transport.  "active" notes
\* the session that was the active one when the request was sent.
\* A variant of the request that names the method where the service goes.
RequestSwapped(transport, service, method, args, by) ==
    [ id |-> rpcCounter + 1, baseURL |-> transport.baseURL, service |-> method,
      method |-> service, args |-> args, by |-> by, active |-> activeSession ]

Request(transport, service, method, args, by) ==
    [ id |-> rpcCounter + 1, baseURL |-> transport.baseURL, service |-> service,
      method |-> method, args |-> args, by |-> by, active |-> activeSession ]

\* A variant of sending that does not advance the counter.
SendSameId(request) ==
    /\ rpcCounter' = rpcCounter
    /\ lastRequest' = request

Send(request) ==
    /\ rpcCounter' = rpcCounter + 1
    /\ lastRequest' = request

\* A string literal of the source, kept whole (nothing takes it apart).
JsWord(w) == [t |-> "string", word |-> w]
JsWords(list) == JsArray([i \in DOMAIN list |-> JsWord(list[i])])

\* part_003:62-63,74-77  the contexts; in buildContext the keys of the
\* argument win over the default's
DEFAULT_CONTEXT == [lang |-> JsWord("en_US")]
WRITE_CONTEXT == [lang |-> JsBool(FALSE)]
buildContext(context) == JsObject(context @@ DEFAULT_CONTEXT)

\* part_003:79-84  cleanObject drops the keys whose value is undefined or null
cleanObject(input) ==
    [k \in {key \in DOMAIN input : input[key].t \notin {"undefined", "null"}} |-> input[k]]

\* The options of an executeKw call: kwargs is <<>> when none are given.
Options(model, method, args, kwargs) ==
    [model |-> model, method |-> method, args |-> args, kwargs |-> kwargs]

\* A variant of the execute_kw request that leaves the uid out.
ExecuteKwRequestNoUid(transport, creds, options, by) ==
    Request(transport, "object", "execute_kw",
            [ database |-> creds.database, uid |-> JsUndefined, password |-> creds.password,
              model |-> options.model, method |-> options.method,
              args |-> options.args, kwargs |-> cleanObject(options.kwargs) ], by)

\* part_003:130-139  executeKwWith: the execute_kw request
ExecuteKwRequest(transport, creds, options, by) ==
    Request(transport, "object", "execute_kw",
            [ database |-> creds.database, uid |-> creds.uid, password |-> creds.password,
              model |-> options.model, method |-> options.method,
              args |-> options.args, kwargs |-> cleanObject(options.kwargs) ], by)

(***************************************************************************)
(* signIn: AuthProvider.signIn (auth.tsx:35-64) around signInToOdoo        *)
(* (part_003:380-455).  A call is at one of                                *)
(*   idle, list, authenticate, read  (awaiting that response),             *)
(*   resolved, rejected  (signInToOdoo has settled; the provider's         *)
(*                        continuation is the next microtask),             *)
(*   done, failed.                                                         *)
(***************************************************************************)
IdleCall == [pc |-> "idle"]

\* The addresses a user submits to signIn, as the provider passes them on,
\* with what normalizeServerUrl and extractDatabaseFromUrl make of each.
ServerUrls ==
    { Trim(u) : u \in { <<"a", ".", "o", "d", "o", "o", ".", "c", "o", "m">>, <<"b", ".", "o", "d", "o", "o", ".", "s", "h", "/">>, <<"m", "y", ".", "c", "o", "/">>, <<"m", "y", ".", "c", "o", "/", "?", "d", "b", "=", "q">>, <<"e", "r", "p", ".", "m", "y", ".", "c", "o">>, <<"h", "t", "t", "p", "s", ":", "/", "/", "m", "y", ".", "c", "o", "/", "w", "e", "b">>, <<"m", "y", ".", "c", "o", "/", "#", "d", "b", "=", "h">>, << " " >> } }

NormalizedServerUrl == [u \in ServerUrls |-> normalizeServerUrl(u)]
ExtractedDatabase == [u \in ServerUrls |-> extractDatabaseFromUrl(u)]

\* A settled promise's continuation runs before any other task.
MicrotaskPending == \E c \in DOMAIN calls : calls[c].pc \in {"resolved", "rejected"}

\* auth.tsx:36-38,46-51  the parameters the provider passes on
ProviderParams(params) ==
    [ serverUrl |-> Trim(params.serverUrl),
      username |-> Trim(params.username),
      password |-> params.password,
      database |-> IF params.database # Undefined /\ Len(Trim(params.database)) > 0
                     THEN Trim(params.database) ELSE Undefined ]

\* A variant of the resolution that looks at the address first.
LocalDatabaseUrlFirst(p) ==
    IF Truthy(ExtractedDatabase[p.serverUrl]) THEN ExtractedDatabase[p.serverUrl]
    ELSE IF Truthy(p.database) /\ Truthy(Trim(p.database)) THEN Trim(p.database)
    ELSE Undefined

\* part_003:390-391  the database known without asking the server:
\*   (database && database.trim()) || extractDatabaseFromUrl(serverUrl)
LocalDatabase(p) ==
    IF Truthy(p.database) /\ Truthy(Trim(p.database)) THEN Trim(p.database)
    ELSE ExtractedDatabase[p.serverUrl]

\* A variant of discoverDatabase that takes the first of several names.
DiscoveredDatabaseFirst(resp) ==
    IF resp.kind = "result" /\ IsArray(resp.value) /\ Len(resp.value.items) >= 1
       /\ resp.value.items[1].t = "string"
    THEN resp.value.items[1].s
    ELSE Undefined

\* part_003:298-324  discoverDatabase: the database a list response yields
DiscoveredDatabase(resp) ==
    IF resp.kind = "result" /\ IsArray(resp.value) /\ Len(resp.value.items) = 1
       /\ resp.value.items[1].t = "string"
    THEN resp.value.items[1].s
    ELSE Undefined

\* signInToOdoo throws.  "reauth" notes whether a session was active when
\* this call was invoked.
Rejected(cl, message) == [pc |-> "rejected", error |-> message, reauth |-> cl.reauth]

\* part_003:326-354  authenticateWithClient up to its await: the checks
\* and the authenticate request
BeginAuthenticate(c, cl, database) ==
    IF Trim(database) = <<>> THEN
        /\ calls' = [calls EXCEPT ![c] = Rejected(cl, "Database is required.")]
        /\ UNCHANGED <<rpcCounter, lastRequest>>
    ELSE IF cl.login = <<>> THEN
        /\ calls' = [calls EXCEPT ![c] = Rejected(cl, "Username or email is required.")]
        /\ UNCHANGED <<rpcCounter, lastRequest>>
    ELSE IF cl.password = <<>> THEN
        /\ calls' = [calls EXCEPT ![c] = Rejected(cl, "Password is required.")]
        /\ UNCHANGED <<rpcCounter, lastRequest>>
    ELSE
        /\ calls' = [calls EXCEPT ![c] =
                        [cl EXCEPT !.pc = "authenticate", !.resolvedDatabase = database]]
        /\ Send(Request(cl.httpClient, "common", "authenticate",
                        [ database |-> Trim(database), login |-> cl.login,
                          password |-> cl.password ], <<"signIn", c>>))

\* auth.tsx:35-51 and part_003:386-392: the provider notes the attempt,
\* signInToOdoo normalizes the address, builds its transport and resolves
\* the database, up to its first await.
SignIn(c, params) ==
    /\ calls[c].pc = "idle"
    /\ \A d \in 1..(c - 1) : calls[d].pc # "idle"
    /\ ~MicrotaskPending
    /\ status' = "authenticating"
    /\ authError' = NullStr
    /\ sinceSignOut' = 0
    /\ UNCHANGED lastResponse
    /\ UNCHANGED <<session, user, activeSession, client, op>>
    /\ LET p == ProviderParams(params)
           normalized == NormalizedServerUrl[p.serverUrl]
       IN  IF ~normalized.ok THEN
               /\ calls' = [calls EXCEPT ![c] =
                               Rejected([reauth |-> activeSession # Null], normalized.error)]
               /\ UNCHANGED <<rpcCounter, lastRequest>>
           ELSE
               LET cl == [ pc |-> "list",
                           submitted |-> params,
                           reauth |-> activeSession # Null,
                           params |-> p,
                           normalizedServerUrl |-> normalized.url,
                           httpClient |-> buildClient(normalized.url, c),
                           login |-> Trim(p.username),
                           password |-> p.password,
                           resolvedDatabase |-> Undefined,
                           uid |-> JsUndefined ]
               IN  IF Truthy(LocalDatabase(p))
                   THEN BeginAuthenticate(c, cl, LocalDatabase(p))
                   ELSE \* part_003:300-309  discoverDatabase sends db.list
                        /\ calls' = [calls EXCEPT ![c] = cl]
                        /\ Send(Request(cl.httpClient, "db", "list", <<>>, <<"signIn", c>>))
    /\ UNCHANGED <<searchVars, pureVars, legacyVars>>

ListResponses ==
    { Failure, ErrorBody("Access Denied"), EmptyBody,
      ResultBody(JsBool(FALSE)),
      ResultBody(JsArray(<<>>)),
      ResultBody(JsArray(<<JsInt(1)>>)),
      ResultBody(JsArray(<<JsText(<<>>)>>)),
      ResultBody(JsArray(<<JsText(<<" ">>)>>)),
      ResultBody(JsArray(<<JsText(<<"d", "1">>)>>)),
      ResultBody(JsArray(<<JsText(<<"d", "1">>), JsText(<<"d", "2">>)>>)) }

DatabaseRequired ==
    "Could not determine the Odoo database. Please provide it in the advanced settings."

\* part_003:311-324,392-402  the list response arrives
ListResponse(c, resp) ==
    /\ calls[c].pc = "list"
    /\ ~MicrotaskPending
    /\ IF Truthy(DiscoveredDatabase(resp))
         THEN BeginAuthenticate(c, calls[c], DiscoveredDatabase(resp))
         ELSE /\ calls' = [calls EXCEPT ![c] = Rejected(calls[c], DatabaseRequired)]
              /\ UNCHANGED <<rpcCounter, lastRequest>>
    /\ sinceSignOut' = 0
    /\ lastResponse' = resp
    /\ UNCHANGED <<activeSession, client, providerVars, op>>
    /\ UNCHANGED <<searchVars, pureVars, legacyVars>>

AuthenticateResponses ==
    { Failure, ResultBody(JsBool(FALSE)), ResultBody(JsInt(7)) }

\* part_003:356-365  the uid authenticateWithClient returns, or its error
AuthenticateError(resp) ==
    IF resp.kind = "failure" THEN "Network Error"
    ELSE IF resp.kind = "error" THEN resp.message
    ELSE IF resp.kind = "empty" THEN "Invalid login response from Odoo"
    ELSE IF ~NumberIsInteger(resp.value) THEN "Invalid login response from Odoo"
    ELSE NullStr

UsersModel == "res.users"

\* part_003:356-416  the authenticate response arrives; on success the
\* profile read is sent with the credentials being signed in
\* part_003:407-415  the options of the profile read
USER_FIELDS == JsWords(<<"name", "email", "login", "partner_id", "company_id">>)
ProfileRead(uid) ==
    Options(UsersModel, "read", <<JsArray(<<uid>>)>>,
            [fields |-> USER_FIELDS, context |-> buildContext(<<>>)])

AuthenticateResponse(c, resp) ==
    /\ calls[c].pc = "authenticate"
    /\ ~MicrotaskPending
    /\ IF AuthenticateError(resp) # NullStr
         THEN /\ calls' = [calls EXCEPT ![c] = Rejected(calls[c], AuthenticateError(resp))]
              /\ UNCHANGED <<rpcCounter, lastRequest>>
         ELSE /\ calls' = [calls EXCEPT ![c].pc = "read", ![c].uid = resp.value]
              /\ Send(ExecuteKwRequest(calls[c].httpClient,
                                       [ database |-> calls[c].resolvedDatabase,
                                         uid |-> resp.value,
                                         password |-> calls[c].password ],
                                       ProfileRead(resp.value), <<"signIn", c>>))
    /\ sinceSignOut' = 0
    /\ lastResponse' = resp
    /\ UNCHANGED <<activeSession, client, providerVars, op>>
    /\ UNCHANGED <<searchVars, pureVars, legacyVars>>

\* rawUser[key], undefined when the record lacks the key
Field(obj, key) == IF key \in DOMAIN obj.fields THEN obj.fields[key] ELSE JsUndefined

NonBlankText(v) == v.t = "string" /\ Len(Trim(v.s)) > 0

\* part_003:419-424,438-439  the id of a [id, label] pair, when an integer
PairId(v) ==
    IF IsArray(v) /\ Len(v.items) > 0 /\ NumberIsInteger(v.items[1]) THEN v.items[1]
    ELSE JsUndefined

\* A variant that falls back to the login typed for the email too.
BuildProfileTypedLogin(uid, userRecords, login) ==
    LET rawUser == IF IsArray(userRecords) /\ Len(userRecords.items) > 0
                     THEN userRecords.items[1] ELSE JsObject(<<>>)
    IN  [ id |-> uid,
          name |-> IF NonBlankText(Field(rawUser, "name"))
                     THEN Trim(Field(rawUser, "name").s) ELSE login,
          email |-> IF NonBlankText(Field(rawUser, "email"))
                      THEN Trim(Field(rawUser, "email").s) ELSE login,
          partnerId |-> PairId(Field(rawUser, "partner_id")),
          companyId |-> PairId(Field(rawUser, "company_id")) ]

\* part_003:418-440  the profile built from the user record
BuildProfile(uid, userRecords, login) ==
    LET rawUser == IF IsArray(userRecords) /\ Len(userRecords.items) > 0
                     THEN userRecords.items[1] ELSE JsObject(<<>>)
    IN  [ id |-> uid,
          name |-> IF NonBlankText(Field(rawUser, "name"))
                     THEN Trim(Field(rawUser, "name").s) ELSE login,
          email |-> IF NonBlankText(Field(rawUser, "email"))
                      THEN Trim(Field(rawUser, "email").s)
                      ELSE IF Field(rawUser, "login").t = "string"
                      THEN Trim(Field(rawUser, "login").s)
                      ELSE Undefined,
          partnerId |-> PairId(Field(rawUser, "partner_id")),
          companyId |-> PairId(Field(rawUser, "company_id")) ]

\* part_003:442-449  sessionData; ref is the identity of the sign-in
SessionData(c, cl, profile) ==
    [ serverUrl |-> cl.normalizedServerUrl,
      database |-> cl.resolvedDatabase,
      username |-> cl.login,
      password |-> cl.password,
      uid |-> cl.uid,
      user |-> profile,
      ref |-> c ]

\* value === undefined || value === null, the test behind ?.
Nullish(v) == v.t \in {"undefined", "null"}

\* part_003:93  [error.message, error.data?.message, error.data?.debug]
ErrorParts(err) ==
    LET data == Field(err, "data")
    IN  << Field(err, "message"),
           IF Nullish(data) THEN JsUndefined ELSE Field(data, "message"),
           IF Nullish(data) THEN JsUndefined ELSE Field(data, "debug") >>

\* Array.prototype.join on a list of whole strings
RECURSIVE JoinWords(_, _)
JoinWords(list, sep) ==
    IF list = <<>> THEN ""
    ELSE IF Len(list) = 1 THEN list[1].word
    ELSE list[1].word \o sep \o JoinWords(Tail(list), sep)

UnknownError == "Unknown Odoo error"

\* A variant that leaves the debug trace out.
extractErrorMessageNoDebug(err) ==
    LET text == JoinWords(SelectSeq(SubSeq(ErrorParts(err), 1, 2), LAMBDA part : ~Falsy(part)), " | ")
    IN  IF Falsy(err) \/ text = "" THEN UnknownError ELSE text

\* part_003:91-95  the parts are strings or absent
extractErrorMessage(err) ==
    LET text == JoinWords(SelectSeq(ErrorParts(err), LAMBDA part : ~Falsy(part)), " | ")
    IN  IF Falsy(err) THEN UnknownError
        ELSE IF text = "" THEN UnknownError
        ELSE text

\* A variant that looks for the result before the error.
EnvelopeResultFirst(err, result) ==
    [ kind |-> IF result # JsUndefined THEN "result"
               ELSE IF ~Falsy(err) THEN "error" ELSE "empty",
      message |-> extractErrorMessage(err),
      error |-> err,
      value |-> result ]

\* A response body with its error and result members as the server sent
\* them (JsUndefined for a member that is missing).  kind is the branch the
\* tests of part_003:141 (if (response.data.error)) and part_003:145
\* (typeof response.data.result === "undefined") take on it, and message
\* the text of part_003:142.
Envelope(err, result) ==
    [ kind |-> IF ~Falsy(err) THEN "error"
               ELSE IF result = JsUndefined THEN "empty" ELSE "result",
      message |-> extractErrorMessage(err),
      error |-> err,
      value |-> result ]

\* A variant that lets a body with an error pass.
ExecuteKwErrorIgnoresRemote(resp) ==
    IF resp.kind = "failure" THEN "Network Error"
    ELSE IF resp.kind = "empty" THEN "Unexpected empty response from Odoo"
    ELSE NullStr

\* part_003:141-149  what executeKwWith makes of a response: the error it
\* throws, "null" when it returns the result
ExecuteKwError(resp) ==
    IF resp.kind = "failure" THEN "Network Error"
    ELSE IF resp.kind = "error" THEN resp.message
    ELSE IF resp.kind = "empty" THEN "Unexpected empty response from Odoo"
    ELSE NullStr

\* A variant of the store that keeps a transport that is already cached.
StoredClientKeepsOld(cl) == IF client = Null THEN cl.httpClient ELSE client

\* part_003:452  client = httpClient
StoredClient(cl) == cl.httpClient

UserRecord ==
    JsObject([ name |-> JsText(<<"A", "n", "n", " ">>), email |-> JsBool(FALSE), login |-> JsText(<<"u">>),
               partner_id |-> JsArray(<<JsInt(3), JsText(<<"A", "n", "n", " ">>)>>),
               company_id |-> JsBool(FALSE) ])

ProfileResponses ==
    { ErrorBody("Access Denied"), ResultBody(JsArray(<<UserRecord>>)) }

\* part_003:141-155,418-454  the profile response arrives; on success the
\* session and the transport are stored and signInToOdoo returns
ProfileResponse(c, resp) ==
    /\ calls[c].pc = "read"
    /\ ~MicrotaskPending
    /\ IF ExecuteKwError(resp) # NullStr
         THEN /\ calls' = [calls EXCEPT ![c] = Rejected(calls[c], ExecuteKwError(resp))]
              /\ UNCHANGED <<activeSession, client>>
         ELSE LET profile == BuildProfile(calls[c].uid, resp.value, calls[c].login)
                  sessionData == SessionData(c, calls[c], profile)
              IN  /\ activeSession' = sessionData
                  /\ client' = StoredClient(calls[c])
                  /\ calls' = [calls EXCEPT ![c] =
                                  [pc |-> "resolved", session |-> sessionData, user |-> profile]]
    /\ sinceSignOut' = 0
    /\ lastResponse' = resp
    /\ UNCHANGED <<rpcCounter, lastRequest, providerVars, op>>
    /\ UNCHANGED <<searchVars, pureVars, legacyVars>>

\* auth.tsx:53-55  after the await: the provider takes the result
SignInContinues(c) ==
    /\ calls[c].pc = "resolved"
    /\ session' = calls[c].session
    /\ user' = calls[c].user
    /\ status' = "authenticated"
    /\ calls' = [calls EXCEPT ![c] = [pc |-> "done"]]
    /\ sinceSignOut' = 0
    /\ UNCHANGED lastResponse
    /\ UNCHANGED <<authError, clientVars, op, lastRequest>>
    /\ UNCHANGED <<searchVars, pureVars, legacyVars>>

\* A variant of the catch that keeps the provider's session and user.
SignInCatchesKeepsSession(c) ==
    /\ calls[c].pc = "rejected"
    /\ status' = "unauthenticated"
    /\ authError' = calls[c].error
    /\ calls' = [calls EXCEPT ![c] = [pc |-> "failed"]]
    /\ sinceSignOut' = 0
    /\ UNCHANGED lastResponse
    /\ UNCHANGED <<session, user, clientVars, op, lastRequest>>
    /\ UNCHANGED <<searchVars, pureVars, legacyVars>>

\* auth.tsx:56-63  the catch: the provider drops its session and rethrows
SignInCatches(c) ==
    /\ calls[c].pc = "rejected"
    /\ session' = Null
    /\ user' = Null
    /\ status' = "unauthenticated"
    /\ authError' = calls[c].error
    /\ calls' = [calls EXCEPT ![c] = [pc |-> "failed"]]
    /\ sinceSignOut' = 0
    /\ UNCHANGED lastResponse
    /\ UNCHANGED <<clientVars, op, lastRequest>>
    /\ UNCHANGED <<searchVars, pureVars, legacyVars>>

\* A variant of signOutFromOdoo that forgets the cached transport.
SignOutKeepsClient == [activeSession |-> Null, client |-> client]

\* part_003:457-460  signOutFromOdoo: the module state it leaves
signOutFromOdoo == [activeSession |-> Null, client |-> Null]

\* auth.tsx:66-72  AuthProvider.signOut
SignOut ==
    /\ ~MicrotaskPending
    /\ sinceSignOut < 2
    /\ activeSession' = signOutFromOdoo.activeSession
    /\ client' = signOutFromOdoo.client
    /\ session' = Null
    /\ user' = Null
    /\ status' = "unauthenticated"
    /\ authError' = NullStr
    /\ sinceSignOut' = sinceSignOut + 1
    /\ UNCHANGED lastResponse
    /\ UNCHANGED <<rpcCounter, calls, op, lastRequest>>
    /\ UNCHANGED <<searchVars, pureVars, legacyVars>>

(***************************************************************************)
(* Gateway operations (part_003:473-799).  Each starts with checks of its  *)
(* arguments, which end it early or let it go on to executeKw.  One        *)
(* operation is followed from its call to its end, among any sign-ins and  *)
(* signOuts: operations share nothing with one another but the request     *)
(* counter and the transport, which they do not replace.                   *)
(***************************************************************************)
ByOp == <<"op", 0>>
PRODUCT_MODEL == "product.template"
VARIANT_MODEL == "product.product"
MOVIE_MODEL == "movie.movie"
MENU_MODEL == "ir.ui.menu"

Throw(message) == [do |-> "throw", error |-> message]
Return(value) == [do |-> "return", value |-> value]
Call(model, method, args, kwargs) ==
    [do |-> "send", model |-> model, method |-> method, args |-> args, kwargs |-> kwargs]

\* A record's value at a key, undefined when the key is absent.
Get(rec, key) == IF key \in DOMAIN rec THEN rec[key] ELSE JsUndefined

\* part_003:595-620  blank text collapses to false; other values are dropped
TextOrFalse(input, key) ==
    IF Get(input, key).t = "string"
      THEN key :> (IF Len(Trim(Get(input, key).s)) = 0 THEN JsBool(FALSE)
                   ELSE JsText(Trim(Get(input, key).s)))
    ELSE IF Get(input, key) = JsBool(FALSE) THEN key :> JsBool(FALSE)
    ELSE <<>>

BoolField(input, key) ==
    IF Get(input, key).t = "boolean" THEN key :> Get(input, key) ELSE <<>>

\* A variant of the checks that lets any price through.
SanitizeErrorNameOnly(input) ==
    IF Get(input, "name").t = "string" /\ Trim(Get(input, "name").s) = <<>>
      THEN "Product name cannot be empty"
    ELSE NullStr

\* part_003:576-631  sanitizeProductUpdate: the error it throws ("null" when
\* none) and the payload it returns
SanitizeError(input) ==
    IF Get(input, "name").t = "string" /\ Trim(Get(input, "name").s) = <<>>
      THEN "Product name cannot be empty"
    ELSE IF Get(input, "list_price").t # "undefined"
            /\ (~NumberIsFinite(ToNumber(Get(input, "list_price")))
                \/ ToNumber(Get(input, "list_price")).twice < 0)
      THEN "Price must be a non-negative number"
    ELSE NullStr

sanitizeProductUpdate(input) ==
    (IF Get(input, "name").t = "string"
       THEN "name" :> JsText(Trim(Get(input, "name").s)) ELSE <<>>)
    @@ (IF Get(input, "list_price").t # "undefined"
          THEN "list_price" :> ToNumber(Get(input, "list_price")) ELSE <<>>)
    @@ TextOrFalse(input, "description_sale")
    @@ TextOrFalse(input, "default_code")
    @@ TextOrFalse(input, "image_1920")
    @@ BoolField(input, "sale_ok")
    @@ BoolField(input, "active")

\* part_003:714-718  the distinct positive-integer ids, in first-seen order
RECURSIVE Distinct(_)
Distinct(list) ==
    IF list = <<>> THEN <<>>
    ELSE LET init == Distinct(SubSeq(list, 1, Len(list) - 1))
             x == list[Len(list)]
         IN  IF \E i \in DOMAIN init : init[i] = x THEN init ELSE Append(init, x)

\* A variant that keeps repeated ids.
UniqueIdsRepeated(ids) ==
    LET idList == IF IsArray(ids) THEN ids.items ELSE <<ids>>
        numbers == [i \in DOMAIN idList |-> ToNumber(idList[i])]
    IN  SelectSeq(numbers, LAMBDA v : NumberIsInteger(v) /\ v.twice > 0)

UniqueIds(ids) ==
    LET idList == IF IsArray(ids) THEN ids.items ELSE <<ids>>
        numbers == [i \in DOMAIN idList |-> ToNumber(idList[i])]
    IN  SelectSeq(Distinct(numbers), LAMBDA v : NumberIsInteger(v) /\ v.twice > 0)

\* A clause of a search domain: a condition [field, operator, value] or
\* the prefix operator "|".
Cond(field, operator, value) ==
    [t |-> "condition", field |-> field, operator |-> operator, value |-> value]
Or == [t |-> "operator", o |-> "|"]

PRODUCT_FIELDS ==
    JsWords(<<"name", "list_price", "currency_id", "description_sale", "image_1920",
              "image_512", "image_256", "sale_ok", "active", "default_code">>)
MOVIE_FIELDS == JsWords(<<"name", "genre", "release_date", "rating">>)
MENU_FIELDS == JsWords(<<"name", "web_icon_data", "action", "sequence", "parent_id">>)

\* part_003:157-171  executeSearchRead: the executeKw call it makes
executeSearchRead(model, domain, fields, limit, order) ==
    Call(model, "search_read", <<JsArray(domain)>>,
         cleanObject([fields |-> fields, limit |-> limit, order |-> order,
                      context |-> buildContext(<<>>)]))

\* A variant of the query that does not look at what the search text holds.
FetchDomainUntrimmed(o) ==
    <<Cond("sale_ok", "=", JsBool(TRUE))>>
    \o (IF Falsy(Get(o, "includeInactive")) THEN <<Cond("active", "=", JsBool(TRUE))>> ELSE <<>>)
    \o (IF Get(o, "categoryId").t = "number"
          THEN <<Cond("categ_id", "child_of", Get(o, "categoryId"))>> ELSE <<>>)
    \o (IF Get(o, "search").t = "string"
          THEN <<Or, Cond("name", "ilike", JsText(Trim(Get(o, "search").s))),
                 Cond("default_code", "ilike", JsText(Trim(Get(o, "search").s)))>>
          ELSE <<>>)

\* part_003:537-554  fetchProductTemplates: the domain
FetchDomain(o) ==
    <<Cond("sale_ok", "=", JsBool(TRUE))>>
    \o (IF Falsy(Get(o, "includeInactive")) THEN <<Cond("active", "=", JsBool(TRUE))>> ELSE <<>>)
    \o (IF Get(o, "categoryId").t = "number"
          THEN <<Cond("categ_id", "child_of", Get(o, "categoryId"))>> ELSE <<>>)
    \o (IF ~Falsy(Get(o, "search")) /\ Len(Trim(Get(o, "search").s)) > 0
          THEN <<Or, Cond("name", "ilike", JsText(Trim(Get(o, "search").s))),
                 Cond("default_code", "ilike", JsText(Trim(Get(o, "search").s)))>>
          ELSE <<>>)

\* part_003:524-561  fetchProductTemplates up to its await
fetchProductTemplates(o) ==
    executeSearchRead(PRODUCT_MODEL, FetchDomain(o), PRODUCT_FIELDS,
                      IF Get(o, "limit").t = "number" THEN Get(o, "limit") ELSE JsInt(40),
                      IF Get(o, "order").t = "undefined" THEN JsWord("write_date desc")
                      ELSE Get(o, "order"))

\* The options argument of an operation: {} when it is left out.
OptionsOf(in) == IF "options" \in DOMAIN in THEN in.options ELSE <<>>

\* part_003:741-742  the options searchProductTemplates passes on
SearchOptions(text, o) ==
    [search |-> JsText(Trim(text)),
     limit |-> IF Get(o, "limit").t = "undefined" THEN JsInt(25) ELSE Get(o, "limit")] @@ o

\* part_003:765-799  the menu queries
MenuSearch(parent) ==
    executeSearchRead(MENU_MODEL,
                      <<Cond("parent_id", "=", parent), Cond("action", "!=", JsBool(FALSE))>>,
                      MENU_FIELDS, JsUndefined, JsWord("sequence asc"))

\* The argument checks of each operation: what it does before executeKw.
Prelude(in) ==
    CASE in.kind = "fetchProductTemplates" -> fetchProductTemplates(OptionsOf(in))
      [] in.kind = "fetchRootMenus" -> MenuSearch(JsBool(FALSE))
      [] in.kind = "searchProductTemplates" ->  \* part_003:738-742
            IF Trim(in.query) = <<>> THEN Return(JsArray(<<>>))
            ELSE fetchProductTemplates(SearchOptions(in.query, OptionsOf(in)))
      [] in.kind = "searchMovies" ->            \* part_003:474-483
            IF Trim(in.query) = <<>> THEN Return(JsArray(<<>>))
            ELSE executeSearchRead(MOVIE_MODEL, <<Cond("name", "ilike", JsText(Trim(in.query)))>>,
                                   MOVIE_FIELDS, JsInt(20), JsWord("release_date desc"))
      [] in.kind = "getProductTemplate" ->      \* part_003:637-646
            IF ~NumberIsInteger(in.id) THEN Throw("Invalid product id")
            ELSE Call(PRODUCT_MODEL, "read", <<JsArray(<<in.id>>)>>,
                      [fields |-> PRODUCT_FIELDS, context |-> buildContext(<<>>)])
      [] in.kind = "updateProductTemplate" ->   \* part_003:659-673
            IF ~NumberIsInteger(in.id) THEN Throw("Invalid product id")
            ELSE IF SanitizeError(in.values) # NullStr THEN Throw(SanitizeError(in.values))
            ELSE IF DOMAIN sanitizeProductUpdate(in.values) = {} THEN Return(JsBool(FALSE))
            ELSE Call(PRODUCT_MODEL, "write",
                      <<JsArray(<<in.id>>), JsObject(sanitizeProductUpdate(in.values))>>,
                      [context |-> buildContext(<<>>)])
      [] in.kind = "deleteProductTemplates" ->  \* part_003:715-729
            IF UniqueIds(in.ids) = <<>> THEN Throw("Invalid product id")
            ELSE Call(PRODUCT_MODEL, "unlink", <<JsArray(UniqueIds(in.ids))>>,
                      [context |-> buildContext(WRITE_CONTEXT)])
      [] in.kind = "fetchChildMenus" ->         \* part_003:782-796
            IF ~NumberIsInteger(in.parentId) THEN Return(JsArray(<<>>))
            ELSE MenuSearch(in.parentId)

\* part_003:679  the change set names the product
ChangesName(in) ==
    in.kind = "updateProductTemplate" /\ "name" \in DOMAIN sanitizeProductUpdate(in.values)

\* part_003:757-763  normalizeMenuRecords
IsMenuEntry(entry) ==
    /\ entry.t = "object"
    /\ Get(entry.fields, "id").t = "number"
    /\ Get(entry.fields, "name").t = "string"

normalizeMenuRecords(records) ==
    IF ~IsArray(records) THEN JsArray(<<>>)
    ELSE JsArray(SelectSeq(records.items, IsMenuEntry))

\* A variant that hands every result on as it came.
ResultOfAsIs(in, value) == value

\* What an operation returns for the result of its (first) request.
ResultOf(in, value) ==
    CASE in.kind \in {"fetchProductTemplates", "searchProductTemplates", "searchMovies"} ->
            IF IsArray(value) THEN value ELSE JsArray(<<>>)  \* part_003:485,562
      [] in.kind \in {"fetchRootMenus", "fetchChildMenus"} -> normalizeMenuRecords(value)
      [] in.kind = "getProductTemplate" ->                     \* part_003:648-652
            IF ~IsArray(value) \/ Len(value.items) = 0 THEN JsNull ELSE value.items[1]
      [] in.kind = "deleteProductTemplates" -> JsBool(~Falsy(value))  \* part_003:731
      [] in.kind = "updateProductTemplate" -> JsBool(~Falsy(value))

Done(in, outcome) == [pc |-> "done", input |-> in, outcome |-> outcome]
Threw(message) == [threw |-> TRUE, error |-> message]
Returned(value) == [threw |-> FALSE, value |-> value]
Awaiting(in, step) == [pc |-> "await", input |-> in, step |-> step]

\* A variant of executeKw that hands the request to the transport before
\* it looks for the session.
ExecuteKwLate(in, step, options, onThrow) ==
    IF ~ensureSession(activeSession) THEN
        /\ op' = onThrow
        /\ client' = client
        /\ Send(Request([baseURL |-> Undefined], "object", "execute_kw",
                        [model |-> options.model, method |-> options.method], ByOp))
    ELSE
        /\ client' = EnsuredClient
        /\ op' = Awaiting(in, step)
        /\ Send(ExecuteKwRequest(EnsuredClient, activeSession, options, ByOp))

\* part_003:152-155  executeKw up to its await, for operation o at a step:
\* without a session it throws, which ends the operation (step "primary")
\* or is caught and logged (the name propagation steps); with a session it
\* sends the request with the session's credentials.  onThrow is what the
\* operation becomes when executeKw throws.
ExecuteKw(in, step, options, onThrow) ==
    IF ~ensureSession(activeSession) THEN
        /\ op' = onThrow
        /\ UNCHANGED <<client, rpcCounter, lastRequest>>
    ELSE
        /\ client' = EnsuredClient
        /\ op' = Awaiting(in, step)
        /\ Send(ExecuteKwRequest(EnsuredClient, activeSession, options, ByOp))

\* An operation is invoked: its argument checks, then executeKw.
OpCall(in) ==
    /\ op.pc = "idle"
    /\ ~MicrotaskPending
    /\ LET checked == Prelude(in)
       IN  IF checked.do = "throw" THEN
               /\ op' = Done(in, Threw(checked.error))
               /\ UNCHANGED <<client, rpcCounter, lastRequest>>
           ELSE IF checked.do = "return" THEN
               /\ op' = Done(in, Returned(checked.value))
               /\ UNCHANGED <<client, rpcCounter, lastRequest>>
           ELSE ExecuteKw(in, "primary", checked,
                          Done(in, Threw(NotAuthenticated)))
    /\ sinceSignOut' = 0
    /\ UNCHANGED lastResponse
    /\ UNCHANGED <<activeSession, providerVars, calls>>
    /\ UNCHANGED <<searchVars, pureVars, legacyVars>>

\* part_003:681-686,699-704  what the name propagation writes
NameOnly(in) == JsObject([name |-> sanitizeProductUpdate(in.values).name])

BaseWrite(in) ==
    Options(PRODUCT_MODEL, "write", <<JsArray(<<in.id>>), NameOnly(in)>>,
            [context |-> buildContext(WRITE_CONTEXT)])

\* part_003:692-696  no kwargs are given
VariantSearch(in) ==
    Options(VARIANT_MODEL, "search", <<JsArray(<<Cond("product_tmpl_id", "=", in.id)>>)>>, <<>>)

VariantWrite(in, variantIds) ==
    Options(VARIANT_MODEL, "write", <<variantIds, NameOnly(in)>>,
            [context |-> buildContext(WRITE_CONTEXT)])

\* A variant of the propagation that stops after the base record.
PropagateToVariantsNever(in) ==
    /\ op' = Done(in, Returned(JsBool(TRUE)))
    /\ UNCHANGED <<client, rpcCounter, lastRequest>>

\* part_003:691-708  the second try block of the name propagation
PropagateToVariants(in) ==
    ExecuteKw(in, "variantSearch", VariantSearch(in), Done(in, Returned(JsBool(TRUE))))

\* A variant of settling that forgets the cached transport on an error.
SettleDropsClient(in, outcome) ==
    /\ op' = Done(in, outcome)
    /\ client' = IF outcome.threw THEN Null ELSE client
    /\ UNCHANGED <<rpcCounter, lastRequest>>

\* part_003:141-149  executeKwWith throws or returns and the operation
\* settles: nothing of the module state is assigned
Settle(in, outcome) ==
    /\ op' = Done(in, outcome)
    /\ UNCHANGED <<client, rpcCounter, lastRequest>>

\* The response to an operation's request arrives.
OpResponse(resp) ==
    /\ op.pc = "await"
    /\ ~MicrotaskPending
    /\ LET in == op.input
           step == op.step
           finish(outcome) == Settle(in, outcome)
       IN  CASE step = "primary" ->
                  IF ExecuteKwError(resp) # NullStr THEN finish(Threw(ExecuteKwError(resp)))
                  ELSE IF in.kind # "updateProductTemplate"
                    THEN finish(Returned(ResultOf(in, resp.value)))
                  ELSE IF Falsy(resp.value) THEN finish(Returned(JsBool(FALSE)))  \* :675-677
                  ELSE IF ~ChangesName(in) THEN finish(Returned(JsBool(TRUE)))
                  ELSE IF ensureSession(activeSession)                            \* :680-689
                    THEN ExecuteKw(in, "base", BaseWrite(in), op)
                  ELSE PropagateToVariants(in)
             [] step = "base" -> PropagateToVariants(in)
             [] step = "variantSearch" ->                                         \* :698-705
                  IF ExecuteKwError(resp) = NullStr /\ IsArray(resp.value)
                     /\ Len(resp.value.items) > 0
                    THEN ExecuteKw(in, "variantWrite", VariantWrite(in, resp.value),
                                   Done(in, Returned(JsBool(TRUE))))
                  ELSE finish(Returned(JsBool(TRUE)))
             [] step = "variantWrite" -> finish(Returned(JsBool(TRUE)))
    /\ sinceSignOut' = 0
    /\ lastResponse' = resp
    /\ UNCHANGED <<activeSession, providerVars, calls>>
    /\ UNCHANGED <<searchVars, pureVars, legacyVars>>

MenuRecord == JsObject([id |-> JsInt(11), name |-> JsText(<<"n">>)])

OpResponses ==
    { ErrorBody("Access Denied"),
      ResultBody(JsBool(TRUE)), ResultBody(JsBool(FALSE)),
      ResultBody(JsArray(<<MenuRecord>>)) }

\* One call of each operation that reaches executeKw.
OpInputs ==
    { [kind |-> "fetchProductTemplates"], [kind |-> "fetchRootMenus"],
      [kind |-> "searchProductTemplates", query |-> <<"a", " ">>],
      [kind |-> "searchMovies", query |-> <<"a">>],
      [kind |-> "getProductTemplate", id |-> JsInt(1)],
      [kind |-> "fetchChildMenus", parentId |-> JsInt(1)],
      [kind |-> "deleteProductTemplates", ids |-> JsArray(<<JsInt(5), JsInt(5), JsInt(7)>>)],
      [kind |-> "updateProductTemplate", id |-> JsInt(1), values |-> [name |-> JsText(<<"n", " ">>)]] }

\* Calls that end in their argument checks.
EarlyInputs ==
    { [kind |-> "searchProductTemplates", query |-> <<" ">>],
      [kind |-> "searchMovies", query |-> <<>>],
      [kind |-> "getProductTemplate", id |-> JsHalf(1)],
      [kind |-> "fetchChildMenus", parentId |-> JsHalf(1)],
      [kind |-> "updateProductTemplate", id |-> JsInt(1), values |-> [image_1920 |-> JsUndefined]] }

(***************************************************************************)
(* The fixed-account client (search.tsx:395-854): one account, whose uid   *)
(* is cached in module state.  Every operation is one or more executeKw    *)
(* calls; each call is followed from its invocation to its settling.       *)
(***************************************************************************)
LegacyCallIds == 1..MaxCalls

LegacyIdleCall == [pc |-> "idle"]

\* search.tsx:475-484,511-520  the body posted, with the id of nextRpcId()
LegacyRequest(service, method, uid, k) ==
    [ id |-> legacyCounter + 1, service |-> service, method |-> method, uid |-> uid, by |-> k ]

\* search.tsx:461-464  nextRpcId, and the post
LegacyPost(request) ==
    /\ legacyCounter' = legacyCounter + 1
    /\ legacyRequest' = request

\* search.tsx:473  if (cachedUid)
HasCachedUid == ~Falsy(cachedUid)

\* search.tsx:486-493  what authenticate throws for a response ("null"
\* when it accepts the result)
LegacyAuthenticateError(resp) ==
    IF resp.kind = "failure" THEN "Network Error"
    ELSE IF resp.kind = "error" THEN resp.message
    ELSE IF resp.kind = "empty" \/ resp.value.t # "number" THEN "Failed to authenticate with Odoo"
    ELSE NullStr

\* search.tsx:523-530  what executeKw throws for a response
LegacyExecuteError(resp) ==
    IF resp.kind = "failure" THEN "Network Error"
    ELSE IF resp.kind = "error" THEN resp.message
    ELSE IF resp.kind = "empty" THEN "Unexpected empty response from Odoo"
    ELSE NullStr

\* A variant that forgets the uid on every kind of error.
CachedUidAfterAnyError(resp) == IF LegacyExecuteError(resp) # NullStr THEN JsNull ELSE cachedUid

\* search.tsx:523-526  cachedUid after the response to execute_kw
CachedUidAfter(resp) == IF resp.kind = "error" THEN JsNull ELSE cachedUid

LegacySettled(resp, message, value) ==
    IF message # NullStr THEN [pc |-> "done", threw |-> TRUE, error |-> message, answer |-> resp]
    ELSE [pc |-> "done", threw |-> FALSE, value |-> value, answer |-> resp]

\* search.tsx:508-521,472-484  executeKw is called: with a cached uid it
\* posts execute_kw, without one authenticate posts its request
LegacyExecuteKw(k) ==
    /\ legacyCalls[k].pc = "idle"
    /\ \A j \in 1..(k - 1) : legacyCalls[j].pc # "idle"
    /\ IF HasCachedUid THEN
          /\ legacyCalls' = [legacyCalls EXCEPT ![k] =
                                [pc |-> "execute", uid |-> cachedUid, authenticatedBy |-> 0]]
          /\ LegacyPost(LegacyRequest("object", "execute_kw", cachedUid, k))
       ELSE
          /\ legacyCalls' = [legacyCalls EXCEPT ![k] =
                                [pc |-> "authenticate", sent |-> legacyCounter + 1]]
          /\ LegacyPost(LegacyRequest("common", "authenticate", JsUndefined, k))
    /\ UNCHANGED cachedUid
    /\ UNCHANGED <<searchVars, pureVars, authVars>>

\* search.tsx:486-498,509-521  the authenticate response arrives: the uid
\* is cached and execute_kw is posted, or the call is rejected
LegacyAuthenticated(k, resp) ==
    /\ legacyCalls[k].pc = "authenticate"
    /\ IF LegacyAuthenticateError(resp) # NullStr THEN
          /\ legacyCalls' = [legacyCalls EXCEPT ![k] =
                                LegacySettled(resp, LegacyAuthenticateError(resp), JsUndefined)]
          /\ UNCHANGED <<cachedUid, legacyCounter, legacyRequest>>
       ELSE
          /\ cachedUid' = resp.value
          /\ legacyCalls' = [legacyCalls EXCEPT ![k] =
                                [pc |-> "execute", uid |-> resp.value,
                                 authenticatedBy |-> legacyCalls[k].sent]]
          /\ LegacyPost(LegacyRequest("object", "execute_kw", resp.value, k))
    /\ UNCHANGED <<searchVars, pureVars, authVars>>

\* search.tsx:523-533  the execute_kw response arrives
LegacyExecuted(k, resp) ==
    /\ legacyCalls[k].pc = "execute"
    /\ cachedUid' = CachedUidAfter(resp)
    /\ legacyCalls' = [legacyCalls EXCEPT ![k] =
                          LegacySettled(resp, LegacyExecuteError(resp),
                                        IF resp.kind = "result" THEN resp.value ELSE JsUndefined)]
    /\ UNCHANGED <<legacyCounter, legacyRequest>>
    /\ UNCHANGED <<searchVars, pureVars, authVars>>

LegacyAuthenticateResponses ==
    { Failure, ErrorBody("Access Denied"), EmptyBody, ResultBody(JsBool(FALSE)),
      ResultBody(JsInt(7)), ResultBody(JsInt(0)) }

LegacyExecuteResponses ==
    { Failure, ErrorBody("Access Denied"), EmptyBody, ResultBody(JsArray(<<>>)) }

LegacyIdle ==
    /\ cachedUid = JsNull
    /\ legacyCounter = 0
    /\ legacyCalls = [k \in LegacyCallIds |-> LegacyIdleCall]
    /\ legacyRequest = Null

\* The state after construction: no session, no transport, nothing sent.
AuthIdle ==
    /\ activeSession = Null
    /\ client = Null
    /\ rpcCounter = 0
    /\ status = "unauthenticated"
    /\ session = Null
    /\ user = Null
    /\ authError = NullStr
    /\ calls = [c \in 1..MaxCalls |-> IdleCall]
    /\ op = [pc |-> "idle"]
    /\ lastRequest = Null
    /\ lastResponse = Null
    /\ sinceSignOut = 0

(***************************************************************************)
(* Specifications.                                                         *)
(***************************************************************************)
SearchInit == SearchIdle /\ PureIdle /\ AuthIdle /\ LegacyIdle

SearchSpec == SearchInit /\ [][SearchNext]_vars

UrlInit ==
    /\ SearchIdle
    /\ AuthIdle
    /\ LegacyIdle
    /\ pin \in UrlInputs \cup PaddedInputs
    /\ pout = Null

UrlNext == EvalUrl

UrlSpec == UrlInit /\ [][UrlNext]_vars

\* The sign-ins tried against two servers: an address that embeds its
\* database, an explicit database, an address that needs discovery, and a
\* blank address.
\* Two accounts on hosted servers, whose database is in the address, and a
\* blank address.
SignInInputs ==
    { [serverUrl |-> <<"a", ".", "o", "d", "o", "o", ".", "c", "o", "m">>, username |-> <<"u", " ">>, password |-> <<"p">>, database |-> Undefined],
      [serverUrl |-> <<"b", ".", "o", "d", "o", "o", ".", "s", "h", "/">>, username |-> <<"v">>, password |-> <<"q", " ">>, database |-> Undefined],
      [serverUrl |-> <<" ">>, username |-> <<"u", " ">>, password |-> <<"p">>, database |-> Undefined] }

\* The operations followed while sign-ins and sign-outs interleave: one that
\* sends a single request and one that sends several.
InterleavedInputs ==
    { [kind |-> "fetchRootMenus"],
      [kind |-> "updateProductTemplate", id |-> JsInt(1), values |-> [name |-> JsText(<<"n", " ">>)]] }

Init == SearchIdle /\ PureIdle /\ AuthIdle /\ LegacyIdle

Next ==
    \/ \E c \in 1..MaxCalls : \E params \in SignInInputs : SignIn(c, params)
    \/ \E c \in 1..MaxCalls : \E resp \in AuthenticateResponses : AuthenticateResponse(c, resp)
    \/ \E c \in 1..MaxCalls : \E resp \in ProfileResponses : ProfileResponse(c, resp)
    \/ \E c \in 1..MaxCalls : SignInContinues(c)
    \/ \E c \in 1..MaxCalls : SignInCatches(c)
    \/ SignOut
    \/ \E in \in InterleavedInputs : OpCall(in)
    \/ \E resp \in OpResponses : OpResponse(resp)

Spec == Init /\ [][Next]_vars

\* Sign-ins alone, over addresses with and without a database in them and
\* every shape of the explicit database argument.
DbAddresses == { <<"m", "y", ".", "c", "o", "/">>, <<"m", "y", ".", "c", "o", "/", "?", "d", "b", "=", "q">>, <<"m", "y", ".", "c", "o", "/", "#", "d", "b", "=", "h">>, <<"a", ".", "o", "d", "o", "o", ".", "c", "o", "m">> }
DbArguments == { Undefined, <<" ">>, <<"x", " ">> }

DbInputs ==
    { [serverUrl |-> u, username |-> <<"u">>, password |-> <<"p">>, database |-> d] :
        u \in DbAddresses, d \in DbArguments }

\* What follows the resolution of the database is answered in one way.
DbAuthenticateResponses == { ResultBody(JsInt(7)) }
DbProfileResponses == { ResultBody(JsArray(<<UserRecord>>)) }

DbInit == SearchIdle /\ PureIdle /\ AuthIdle /\ LegacyIdle

DbNext ==
    \/ \E c \in 1..MaxCalls : \E params \in DbInputs : SignIn(c, params)
    \/ \E c \in 1..MaxCalls : \E resp \in ListResponses : ListResponse(c, resp)
    \/ \E c \in 1..MaxCalls : \E resp \in DbAuthenticateResponses : AuthenticateResponse(c, resp)
    \/ \E c \in 1..MaxCalls : \E resp \in DbProfileResponses : ProfileResponse(c, resp)
    \/ \E c \in 1..MaxCalls : SignInContinues(c)
    \/ \E c \in 1..MaxCalls : SignInCatches(c)

DbSpec == DbInit /\ [][DbNext]_vars

\* Sign-ins to one hosted server, over everything a server can answer to
\* authenticate.
AccountInputs ==
    { [serverUrl |-> <<"a", ".", "o", "d", "o", "o", ".", "c", "o", "m">>, username |-> <<"u", " ">>,
       password |-> <<"p">>, database |-> Undefined] }

AnyAuthenticateResponses ==
    { Failure, ErrorBody("Access Denied"), EmptyBody,
      ResultBody(JsBool(FALSE)), ResultBody(JsBool(TRUE)), ResultBody(JsNull),
      ResultBody(JsText(<<"7">>)), ResultBody(JsHalf(1)), ResultBody(JsNaN),
      ResultBody(JsInt(7)), ResultBody(JsInt(0)), ResultBody(JsInt(-3)) }

\* Every way the profile read can end: a transport failure, an error (with a
\* result beside it), an empty body, the user record.
ReadResponses ==
    { Failure,
      Envelope(JsObject([message |-> JsWord("Access Denied")]), JsArray(<<UserRecord>>)),
      EmptyBody,
      ResultBody(JsArray(<<UserRecord>>)) }

AccountInit == SearchIdle /\ PureIdle /\ AuthIdle /\ LegacyIdle

AccountNext ==
    \/ \E c \in 1..MaxCalls : \E params \in AccountInputs : SignIn(c, params)
    \/ \E c \in 1..MaxCalls : \E resp \in AnyAuthenticateResponses : AuthenticateResponse(c, resp)
    \/ \E c \in 1..MaxCalls : \E resp \in ReadResponses : ProfileResponse(c, resp)
    \/ \E c \in 1..MaxCalls : SignInContinues(c)
    \/ \E c \in 1..MaxCalls : SignInCatches(c)

AccountSpec == AccountInit /\ [][AccountNext]_vars

\* One account signs in (and may sign out); one gateway operation is
\* followed, with any kind of answer to each of its requests.
GatewayAccount ==
    { [serverUrl |-> <<"a", ".", "o", "d", "o", "o", ".", "c", "o", "m">>, username |-> <<"u", " ">>,
       password |-> <<"p">>, database |-> Undefined] }

GatewayResponses ==
    { Failure, ErrorBody("Access Denied"), EmptyBody,
      ResultBody(JsBool(TRUE)), ResultBody(JsBool(FALSE)),
      ResultBody(JsArray(<<>>)), ResultBody(JsArray(<<MenuRecord>>)) }

\* Change sets for updateProductTemplate: every combination of an id, a
\* name, a price and one other field (each of the last three may be absent).
UpdateIds == { JsInt(1), JsHalf(1), JsNaN }
UpdateNames == { <<>>, [name |-> JsText(<<" ">>)], [name |-> JsText(<<"n", " ">>)] }
UpdatePrices ==
    { <<>>, [list_price |-> JsInt(-1)], [list_price |-> JsNaN], [list_price |-> JsInt(0)],
      [list_price |-> JsHalf(5)] }
UpdateOthers == { <<>>, [active |-> JsBool(TRUE)], [description_sale |-> JsText(<<>>)] }
UpdateInputs ==
    { [kind |-> "updateProductTemplate", id |-> i, values |-> n @@ pr @@ o] :
        i \in UpdateIds, n \in UpdateNames, pr \in UpdatePrices, o \in UpdateOthers }

\* Arguments of deleteProductTemplates: one number, or a list of up to
\* MaxIds numbers.
MaxIds == 3
IdValues == { JsInt(-1), JsInt(0), JsHalf(1), JsNaN, JsInt(5), JsInt(7) }
IdLists == UNION { [1..n -> IdValues] : n \in 0..MaxIds }
DeleteInputs ==
    { [kind |-> "deleteProductTemplates", ids |-> v] : v \in IdValues }
    \cup { [kind |-> "deleteProductTemplates", ids |-> JsArray(l)] : l \in IdLists }

\* Options of fetchProductTemplates: every combination of a limit, a
\* search text, a category, includeInactive and an order (each may be
\* absent).
FetchLimits == { <<>>, [limit |-> JsInt(5)], [limit |-> JsInt(0)] }
FetchSearches ==
    { <<>>, [search |-> JsText(<<>>)], [search |-> JsText(<<" ">>)],
      [search |-> JsText(<<" ", "a", " ">>)] }
FetchCategories == { <<>>, [categoryId |-> JsInt(3)], [categoryId |-> JsInt(0)] }
FetchInactive == { <<>>, [includeInactive |-> JsBool(TRUE)], [includeInactive |-> JsBool(FALSE)] }
FetchOrders == { <<>>, [order |-> JsWord("name asc")] }
FetchInputs ==
    { [kind |-> "fetchProductTemplates", options |-> l @@ se @@ c @@ i @@ o] :
        l \in FetchLimits, se \in FetchSearches, c \in FetchCategories,
        i \in FetchInactive, o \in FetchOrders }

GatewayInputs == OpInputs \cup EarlyInputs \cup UpdateInputs \cup DeleteInputs \cup FetchInputs

GatewayInit == SearchIdle /\ PureIdle /\ AuthIdle /\ LegacyIdle

GatewayNext ==
    \/ \E params \in GatewayAccount : SignIn(1, params)
    \/ AuthenticateResponse(1, ResultBody(JsInt(7)))
    \/ ProfileResponse(1, ResultBody(JsArray(<<UserRecord>>)))
    \/ SignInContinues(1)
    \/ SignOut
    \/ \E in \in GatewayInputs : OpCall(in)
    \/ \E resp \in GatewayResponses : OpResponse(resp)

GatewaySpec == GatewayInit /\ [][GatewayNext]_vars

\* One account signs in and one gateway operation of each kind is followed;
\* the answers are response bodies with every combination of an error
\* member (missing, null, or an object with or without message, data,
\* data.message and data.debug, each of the texts possibly empty) and a
\* result member (missing, null, booleans, numbers, texts, lists, a record).
ErrorTexts(key, text) == { <<>>, key :> JsWord(""), key :> JsWord(text) }
ErrorData ==
    { <<>>, [data |-> JsNull] }
    \cup { [data |-> JsObject(m @@ g)] :
              m \in ErrorTexts("message", "denied"), g \in ErrorTexts("debug", "trace...") }
ErrorObjects == { JsObject(m @@ d) : m \in ErrorTexts("message", "Access Denied"), d \in ErrorData }
NoErrors == { JsUndefined, JsNull }
Results ==
    { JsUndefined, JsNull, JsBool(TRUE), JsBool(FALSE), JsInt(0), JsInt(3),
      JsText(<<>>), JsText(<<"x">>), JsArray(<<>>), JsArray(<<MenuRecord>>), MenuRecord }
Envelopes ==
    { Failure }
    \cup { Envelope(e, r) : e \in NoErrors, r \in Results }
    \cup { Envelope(e, r) : e \in ErrorObjects, r \in { JsUndefined, JsArray(<<MenuRecord>>) } }

EnvelopeInit == SearchIdle /\ PureIdle /\ AuthIdle /\ LegacyIdle

EnvelopeNext ==
    \/ \E params \in GatewayAccount : SignIn(1, params)
    \/ AuthenticateResponse(1, ResultBody(JsInt(7)))
    \/ ProfileResponse(1, ResultBody(JsArray(<<UserRecord>>)))
    \/ SignInContinues(1)
    \/ \E in \in OpInputs : OpCall(in)
    \/ \E resp \in Envelopes : OpResponse(resp)

EnvelopeSpec == EnvelopeInit /\ [][EnvelopeNext]_vars

\* One sign-in, over the user records a server can answer the profile read
\* with: name, email and login each missing, false (how the server sends an
\* empty field), blank, or a text with blanks around it; no record at all;
\* a result that is not a list.
ProfileTexts(key, text) ==
    { <<>>, key :> JsBool(FALSE), key :> JsText(<<" ">>), key :> JsText(<<" ">> \o text \o <<" ">>) }
ProfileRecords ==
    { JsObject(n @@ e @@ l) :
        n \in ProfileTexts("name", <<"A", "n", "n">>),
        e \in ProfileTexts("email", <<"a", "@", "b">>),
        l \in ProfileTexts("login", <<"l">>) }
AnyProfileResponses ==
    { ErrorBody("Access Denied"), ResultBody(JsBool(FALSE)), ResultBody(JsArray(<<>>)) }
    \cup { ResultBody(JsArray(<<r>>)) : r \in ProfileRecords }
ProfileUids == { ResultBody(JsInt(7)), ResultBody(JsInt(12)) }

ProfileInit == SearchIdle /\ PureIdle /\ AuthIdle /\ LegacyIdle

ProfileNext ==
    \/ \E params \in GatewayAccount : SignIn(1, params)
    \/ \E resp \in ProfileUids : AuthenticateResponse(1, resp)
    \/ \E resp \in AnyProfileResponses : ProfileResponse(1, resp)
    \/ SignInContinues(1)
    \/ SignInCatches(1)

ProfileSpec == ProfileInit /\ [][ProfileNext]_vars

\* The fixed-account client alone.
LegacyInit == SearchIdle /\ PureIdle /\ AuthIdle /\ LegacyIdle

LegacyNext ==
    \/ \E k \in LegacyCallIds : LegacyExecuteKw(k)
    \/ \E k \in LegacyCallIds : \E resp \in LegacyAuthenticateResponses : LegacyAuthenticated(k, resp)
    \/ \E k \in LegacyCallIds : \E resp \in LegacyExecuteResponses : LegacyExecuted(k, resp)

LegacySpec == LegacyInit /\ [][LegacyNext]_vars

\* Everything that sends a request, with the answers that let each caller
\* go on to its next request or stop: a sign-in whose database is in the
\* address, one that needs discovery, signOut, and one operation of each
\* kind.
WireInputs ==
    { [serverUrl |-> <<"a", ".", "o", "d", "o", "o", ".", "c", "o", "m">>, username |-> <<"u", " ">>,
       password |-> <<"p">>, database |-> Undefined],
      [serverUrl |-> <<"m", "y", ".", "c", "o", "/">>, username |-> <<"v">>,
       password |-> <<"q", " ">>, database |-> Undefined] }

WireListResponses == { Failure, ResultBody(JsArray(<<JsText(<<"d", "1">>)>>)) }
WireAuthenticateResponses == { ResultBody(JsInt(7)) }
WireProfileResponses == { ResultBody(JsArray(<<UserRecord>>)) }
WireOpResponses == { ResultBody(JsArray(<<MenuRecord>>)) }
WireOpInputs == { in \in OpInputs : Prelude(in).do = "send" }

WireInit == SearchIdle /\ PureIdle /\ AuthIdle /\ LegacyIdle

WireNext ==
    \/ \E c \in 1..MaxCalls : \E params \in WireInputs : SignIn(c, params)
    \/ \E c \in 1..MaxCalls : \E resp \in WireListResponses : ListResponse(c, resp)
    \/ \E c \in 1..MaxCalls : \E resp \in WireAuthenticateResponses : AuthenticateResponse(c, resp)
    \/ \E c \in 1..MaxCalls : \E resp \in WireProfileResponses : ProfileResponse(c, resp)
    \/ \E c \in 1..MaxCalls : SignInContinues(c)
    \/ \E c \in 1..MaxCalls : SignInCatches(c)
    \/ SignOut
    \/ \E in \in WireOpInputs : OpCall(in)
    \/ \E resp \in WireOpResponses : OpResponse(resp)

WireSpec == WireInit /\ [][WireNext]_vars

(***************************************************************************)
(* Search screen: claims.                                                  *)
(***************************************************************************)
LastEffect == Len(effects)

\* A request that settles while its effect is cancelled touches nothing.
StaleOutcomeIgnored ==
    \A e \in DOMAIN effects :
        (effects[e].request = "inflight" /\ effects[e].isCancelled /\ Settled(e)')
            => UNCHANGED <<results, error, isLoading>>

\* Once the request of the current query has settled, the screen shows it.
LatestOutcomeShown ==
    (mounted /\ Settled(LastEffect)) =>
        /\ ~isLoading
        /\ effects[LastEffect].request = "resolved" =>
               (results = effects[LastEffect].response /\ error = NullStr)
        /\ effects[LastEffect].request = "rejected" =>
               (results = <<>> /\ error # NullStr)

\* C1: staleness guard.  When the query changed from q1 to q2 while q1's
\* request was in flight, the outcome of q1's request (success or failure),
\* whenever it arrives, modifies none of results, error and isLoading; and
\* once the request for the current query q2 has settled, results is the
\* response to q2 (the empty list and an error message when it failed).
C1_StalenessGuard == [][StaleOutcomeIgnored]_vars /\ []LatestOutcomeShown

\* C1 witness: the request for "ab" was superseded in flight by "abc",
\* resolved with a product after the request for "abc" had resolved, and
\* the screen shows the products for "abc".
C1_Witness ==
    /\ mounted
    /\ LastEffect >= 2
    /\ effects[LastEffect].trimmed = <<"a", "b", "c">>
    /\ effects[LastEffect].request = "resolved"
    /\ effects[LastEffect].response # <<>>
    /\ results = effects[LastEffect].response
    /\ \E e \in 1..(LastEffect - 1) :
          /\ effects[e].trimmed = <<"a", "b">>
          /\ effects[e].request = "resolved"
          /\ effects[e].response # <<>>
          /\ e \in lateSettles

\* A request is sent only by the effect of the current query, once its
\* delay has elapsed; a query change leaves no earlier timer pending.
SentOnlyWhenStable ==
    /\ \A e \in DOMAIN effects :
          (effects[e].request = "none" /\ effects'[e].request # "none") =>
              /\ e = LastEffect
              /\ ~effects[e].isCancelled
              /\ query' = query
              /\ Trim(query) = effects[e].trimmed
              /\ now >= effects[e].createdAt + Delay(effects[e].trimmed)
    /\ query' # query =>
          \A e \in DOMAIN effects : effects'[e].timer # "pending"

\* The timers and requests every state holds.
DebounceState ==
    \A e \in DOMAIN effects :
        /\ Len(effects[e].trimmed) > 0 =>
              /\ effects[e].due = effects[e].createdAt + DebounceMs
              /\ effects[e].call \in {"none", "searchProductTemplates"}
        /\ Len(effects[e].trimmed) = 0 =>
              /\ effects[e].due = effects[e].createdAt
              /\ effects[e].call \in {"none", "fetchProductTemplates"}
        /\ effects[e].timer = "cleared" => effects[e].request = "none"
        /\ effects[e].timer = "pending" => (e = LastEffect /\ ~effects[e].isCancelled)

\* C8: debounce.  The request for a query that is non-empty after trimming
\* is sent only when its timer fires, 350 ms after the query was set, and
\* only if the query has not changed since; a query change clears the
\* pending timer, so a superseded query whose timer had not fired never
\* sends a request.  For a query that is empty after trimming the
\* product-list fetch is scheduled with delay 0.
C8_Debounce == [][SentOnlyWhenStable]_vars /\ []DebounceState

\* C8 witness: a non-empty query was superseded before its timer fired (its
\* timer was cleared and it sent nothing), the mount-time empty query sent
\* its fetch at time 0, and the current non-empty query sent its search.
C8_Witness ==
    /\ LastEffect = 3
    /\ effects[1].trimmed = <<>> /\ effects[1].call = "fetchProductTemplates"
    /\ effects[2].trimmed # <<>> /\ effects[2].timer = "cleared"
    /\ effects[2].request = "none"
    /\ effects[3].trimmed # <<>> /\ effects[3].call = "searchProductTemplates"

(***************************************************************************)
(* Database extraction: claims.                                            *)
(***************************************************************************)
HostLabels(host) == NonEmpty(Split(host, {"."}))

\* The host is on a recognised hosting provider's domain.
ProviderHost(host) ==
    /\ Len(HostLabels(host)) >= 2
    /\ Join(SubSeq(HostLabels(host), Len(HostLabels(host)) - 1, Len(HostLabels(host))), <<".">>)
          \in KNOWN_ODOO_SUFFIXES

\* The URL carries no database in its query string, fragment or path.
NoDatabaseInUrlParts(parsed) ==
    /\ ~Truthy(TrimmedParam(parseParams(parsed.query), DbKey))
    /\ HashCandidate(parsed.hash) = Undefined
    /\ PathCandidate(parsed.path) = Undefined

\* C10: the database embedded in a URL comes, in this order, from the db
\* parameter of the query string, the fragment, a single bare path segment
\* that is not reserved, or the host; the host contributes a database only
\* when it is on a recognised hosting provider's domain, and every other
\* host with no database in query, fragment or path yields no database.
C10_HostOnlyForKnownProviders ==
    (pout # Null /\ parseInputUrl(pin) # Null) =>
        LET parsed == parseInputUrl(pin)
            fromQuery == TrimmedParam(parseParams(parsed.query), DbKey)
        IN  /\ Truthy(fromQuery) => pout.database = fromQuery
            /\ (~Truthy(fromQuery) /\ HashCandidate(parsed.hash) # Undefined) =>
                  pout.database = HashCandidate(parsed.hash)
            /\ (~Truthy(fromQuery) /\ HashCandidate(parsed.hash) = Undefined
                  /\ PathCandidate(parsed.path) # Undefined) =>
                  pout.database = PathCandidate(parsed.path)
            /\ (NoDatabaseInUrlParts(parsed) /\ ~ProviderHost(parsed.host)) =>
                  pout.database = Undefined

(***************************************************************************)
(* Claims about the provider and the client's session.                     *)
(***************************************************************************)
CallIds == 1..MaxCalls

\* The program's state: everything but the note of consecutive signOuts.
programVars ==
    <<activeSession, client, rpcCounter, status, session, user, authError,
      calls, op, lastRequest>>

AllowedTransitions ==
    { <<"unauthenticated", "authenticating">>, <<"authenticating", "authenticated">>,
      <<"authenticating", "unauthenticated">>, <<"authenticated", "unauthenticated">> }

\* C2: the provider's status changes only along unauthenticated ->
\* authenticating -> authenticated, authenticating -> unauthenticated and
\* authenticated -> unauthenticated; in particular never from
\* unauthenticated straight to authenticated, nor from authenticated to
\* authenticating.
C2_StatusTransitions ==
    [][status' = status \/ <<status, status'>> \in AllowedTransitions]_vars

\* C3: when a sign-in that was invoked while a session was active has
\* failed and the provider has caught the failure, no session is active.
C3_FailedReauthLeavesNoSession ==
    [][\A c \in CallIds :
         (calls[c].pc = "rejected" /\ calls[c].reauth /\ calls'[c].pc = "failed")
           => activeSession' = Null]_vars

\* Does a request carry the credentials of a session?
CarriesCredentialsOf(request, s) ==
    /\ s # Null
    /\ request.args.database = s.database
    /\ request.args.uid = s.uid
    /\ request.args.password = s.password

IsExecuteKw(request) ==
    request # Null /\ request.service = "object" /\ request.method = "execute_kw"

\* C4 (as first stated): every execute_kw request carries the database, uid
\* and password of the session that is active when it is sent.
C4_EveryRequestCarriesActiveSession ==
    IsExecuteKw(lastRequest) => CarriesCredentialsOf(lastRequest, lastRequest.active)

\* C4: every execute_kw request a gateway operation sends carries the
\* database, uid and password of the session that is active when it is
\* sent; the profile read of a sign-in carries the database, uid and
\* password of that sign-in, which is not yet the stored session.
C4_OperationsCarryActiveSession ==
    /\ IsExecuteKw(lastRequest) /\ lastRequest.by[1] = "op"
         => CarriesCredentialsOf(lastRequest, lastRequest.active)
    /\ \A c \in CallIds :
         (calls[c].pc = "read" /\ IsExecuteKw(lastRequest) /\ lastRequest.by = <<"signIn", c>>)
           => /\ lastRequest.args.database = calls[c].resolvedDatabase
              /\ lastRequest.args.uid = calls[c].uid
              /\ lastRequest.args.password = calls[c].submitted.password
              /\ lastRequest.active = Null \/ lastRequest.active.ref # c

\* An update's name propagation sends its request with the credentials of a
\* session that replaced the one the update began under.
C4_Witness ==
    /\ op.pc = "await" /\ op.step = "base"
    /\ IsExecuteKw(lastRequest) /\ lastRequest.by = ByOp
    /\ activeSession # Null /\ activeSession.ref = 2
    /\ lastRequest.args.password = <<"q", " ">>

SendingKinds == { in.kind : in \in { i \in OpInputs : Prelude(i).do = "send" } }

\* C5: while no session is active, an operation whose arguments pass its
\* checks fails with NotAuthenticated, and no step of any operation sends a
\* request.
C5StepFailsWithoutSession ==
    /\ (op.pc = "idle" /\ op'.pc # "idle" /\ activeSession = Null
        /\ Prelude(op'.input).do = "send")
         => /\ op' = Done(op'.input, Threw(NotAuthenticated))
            /\ UNCHANGED <<rpcCounter, lastRequest>>
    /\ (op' # op /\ activeSession = Null) => UNCHANGED <<rpcCounter, lastRequest>>

C5_NoSessionNoRequest == [][C5StepFailsWithoutSession]_vars

\* An update was invoked after a signOut and failed; the inputs cover all
\* eight operations.
C5_Witness ==
    /\ op.pc = "done" /\ op.input.kind = "updateProductTemplate"
    /\ op.outcome = Threw(NotAuthenticated)
    /\ activeSession = Null
    /\ \E c \in CallIds : calls[c].pc = "done"
    /\ SendingKinds = { "fetchProductTemplates", "searchProductTemplates", "searchMovies",
                        "getProductTemplate", "updateProductTemplate",
                        "deleteProductTemplates", "fetchRootMenus", "fetchChildMenus" }

\* C6: the cached transport is absent, or a session is active and the
\* transport is the one built by that session's sign-in for its server URL.
C6_TransportBoundToSession ==
    client = Null
      \/ (activeSession # Null /\ client = buildClient(activeSession.serverUrl, activeSession.ref))

\* A second sign-in has replaced session and transport, and an operation
\* has gone through the transport.
C6_Witness ==
    /\ activeSession # Null /\ activeSession.ref = 2
    /\ client # Null
    /\ calls[1].pc = "done"
    /\ op.pc = "await" /\ lastRequest.by = ByOp

\* C7 (as first stated): a signOut with no active session changes nothing.
C7_SignOutWithoutSessionIsNoOp ==
    [][(sinceSignOut' > sinceSignOut /\ activeSession = Null) => UNCHANGED programVars]_vars

\* C7: signOut leaves no active session and no transport; a signOut right
\* after a signOut changes nothing; a signOut with no active session leaves
\* the client's state and the provider's session and user as they were
\* (the provider's status and error are reset all the same).
C7SignOutStep ==
    sinceSignOut' > sinceSignOut =>
      /\ activeSession' = Null /\ client' = Null
      /\ session' = Null /\ user' = Null /\ status' = "unauthenticated" /\ authError' = NullStr
      /\ sinceSignOut = 1 => UNCHANGED programVars
      /\ activeSession = Null => UNCHANGED <<activeSession, client, rpcCounter, session, user>>

C7_SignOutClearsAndIsIdempotent == [][C7SignOutStep]_vars

\* Two signOuts in a row after a successful sign-in.
C7_Witness ==
    /\ sinceSignOut = 2
    /\ \E c \in CallIds : calls[c].pc = "done"
    /\ activeSession = Null /\ client = Null

(***************************************************************************)
(* Claims about the resolution of the database.                            *)
(***************************************************************************)
\* The explicit database argument as submitted, when it is not blank.
ExplicitDatabase(submitted) ==
    IF submitted.database # Undefined /\ Trim(submitted.database) # <<>>
      THEN Trim(submitted.database) ELSE Undefined

EmbeddedDatabase(submitted) == extractDatabaseFromUrl(Trim(submitted.serverUrl))

\* C9: a non-blank explicit database is the one used; failing that, the
\* database embedded in the address; the list request is sent only when
\* there is neither, and only then is the listed database used.
C9_DatabasePriority ==
    \A c \in CallIds :
      /\ calls[c].pc \in {"authenticate", "read"} =>
           LET explicit == ExplicitDatabase(calls[c].submitted)
               embedded == EmbeddedDatabase(calls[c].submitted)
           IN  /\ explicit # Undefined => calls[c].resolvedDatabase = explicit
               /\ (explicit = Undefined /\ embedded # Undefined)
                    => calls[c].resolvedDatabase = embedded
               /\ (explicit = Undefined /\ embedded = Undefined)
                    => calls[c].resolvedDatabase = <<"d", "1">>
               /\ (calls[c].pc = "authenticate" /\ lastRequest.by = <<"signIn", c>>)
                    => /\ lastRequest.method = "authenticate"
                       /\ lastRequest.args.database = calls[c].resolvedDatabase
      /\ calls[c].pc = "list" =>
           /\ ExplicitDatabase(calls[c].submitted) = Undefined
           /\ EmbeddedDatabase(calls[c].submitted) = Undefined
           /\ lastRequest.by = <<"signIn", c>> => lastRequest.method = "list"

\* An explicit database was submitted with an address that embeds another,
\* and the authenticate request names the explicit one.
C9_Witness ==
    /\ calls[1].pc = "authenticate"
    /\ calls[1].submitted.database = <<"x", " ">>
    /\ EmbeddedDatabase(calls[1].submitted) = <<"q">>
    /\ lastRequest.method = "authenticate" /\ lastRequest.args.database = <<"x">>

(***************************************************************************)
(* Claims about discovery and authentication.                              *)
(***************************************************************************)
\* The list response names exactly one database.
ExactlyOneName(resp) ==
    /\ resp.kind = "result"
    /\ IsArray(resp.value)
    /\ Len(resp.value.items) = 1
    /\ resp.value.items[1].t = "string"
    /\ Trim(resp.value.items[1].s) # <<>>

\* The errors that say no database could be determined.
DatabaseRequiredErrors == { DatabaseRequired, "Database is required." }

C11ListStep ==
    \A c \in CallIds :
      /\ (calls[c].pc = "list" /\ calls'[c].pc # "list") =>
           IF ExactlyOneName(lastResponse')
             THEN /\ calls'[c].pc = "authenticate"
                  /\ calls'[c].resolvedDatabase = lastResponse'.value.items[1].s
                  /\ lastRequest'.by = <<"signIn", c>>
                  /\ lastRequest'.method = "authenticate"
                  /\ lastRequest'.args.database = Trim(lastResponse'.value.items[1].s)
             ELSE /\ calls'[c].pc = "rejected"
                  /\ calls'[c].error \in DatabaseRequiredErrors
                  /\ UNCHANGED <<rpcCounter, lastRequest, activeSession, client>>
      /\ (calls[c].pc = "rejected" /\ calls[c].error \in DatabaseRequiredErrors
          /\ calls'[c].pc = "failed")
           => /\ UNCHANGED <<rpcCounter, lastRequest, activeSession, client>>
              /\ session' = Null /\ authError' = calls[c].error

\* C11: when neither the argument nor the address gives a database, the
\* discovered one is used if and only if the list response names exactly
\* one database; otherwise signIn fails with a database-required error,
\* sends no authenticate request and stores no session.
C11_DiscoveryOnlyForSingleName == [][C11ListStep]_vars

\* One sign-in goes on with the single listed database; another, answered
\* with two names, has failed.
C11_Witness ==
    /\ calls[1].pc = "failed" /\ authError = DatabaseRequired
    /\ calls[2].pc = "authenticate" /\ calls[2].resolvedDatabase = <<"d", "1">>
    /\ ExactlyOneName(lastResponse)
    /\ activeSession = Null

\* C12: every session stored as the active session has a uid that is a
\* positive integer.
C12_StoredUidIsPositiveInteger ==
    activeSession # Null
      => (NumberIsInteger(activeSession.uid) /\ activeSession.uid.twice > 0)

\* ---------------------------------------------------------------------
\* C13

Addressed(service, method) ==
    lastRequest # Null /\ lastRequest.service = service /\ lastRequest.method = method

RequestSent == lastRequest' # lastRequest \/ rpcCounter' # rpcCounter

C14Step ==
    /\ rpcCounter' >= rpcCounter
    /\ lastRequest # Null => lastRequest.id <= rpcCounter
    /\ RequestSent =>
          /\ lastRequest' # Null
          /\ lastRequest'.id > rpcCounter
          /\ lastRequest'.id = rpcCounter'

\* C14: the counter never goes down, no request sent so far has an id
\* above it, and every step that sends a request (list, authenticate or
\* execute_kw, of a sign-in or of a gateway operation, before or after a
\* signOut, with other calls in flight) gives it an id above the counter
\* and moves the counter to that id: each id is strictly greater than
\* every id sent before, so no two requests share one.
C14_IdsStrictlyIncrease == [][C14Step]_vars

C14_Witness ==
    /\ sinceSignOut = 0
    /\ calls[1].pc = "done"
    /\ calls[2].pc = "read"
    /\ activeSession = Null
    /\ op.pc = "await"
    /\ lastRequest # Null
    /\ lastRequest.by = <<"signIn", 2>>
    /\ lastRequest.id >= 5

\* ---------------------------------------------------------------------
\* C15

OpFails == op' # op /\ op'.pc = "done" /\ op'.outcome.threw

\* C15: a step in which a gateway operation ends in failure (its
\* arguments are rejected, there is no session, or its primary request is
\* answered by a server error, an empty response or a transport failure)
\* leaves the active session, the cached transport and the provider's
\* session, user and status as they were.
C15_FailedOperationKeepsSession ==
    [][OpFails => UNCHANGED <<activeSession, client, session, user, status>>]_vars

C15_Witness ==
    /\ op.pc = "done"
    /\ op.outcome.threw
    /\ op.outcome.error = "Unexpected empty response from Odoo"
    /\ lastResponse = EmptyBody
    /\ activeSession # Null
    /\ client # Null
    /\ status = "authenticated"

\* ---------------------------------------------------------------------
\* C16

LegacyStarts(k) == legacyCalls[k].pc = "idle" /\ legacyCalls'[k].pc # "idle"
LegacyExecuteSettles(k) == legacyCalls[k].pc = "execute" /\ legacyCalls'[k].pc = "done"

\* C16 (as stated): every error of an execute_kw call clears the cached
\* uid, and a call that starts while a uid is cached sends no authenticate
\* request.
C16_AnyErrorInvalidates ==
    [][\A k \in LegacyCallIds :
          /\ (LegacyExecuteSettles(k) /\ legacyCalls'[k].threw) => cachedUid' = JsNull
          /\ (LegacyStarts(k) /\ cachedUid # JsNull) => legacyRequest'.method # "authenticate"]_vars

\* C16: an execute_kw call answered by a server-reported error clears the
\* cached uid; one that is answered by a result, by an empty response or
\* not at all (transport failure) leaves it as it was.  A call that starts
\* while no usable uid is cached (none, or 0) posts authenticate first and
\* posts its execute_kw request only after that is answered, with a later
\* id and the uid of the answer; a call that starts while a non-zero uid
\* is cached posts execute_kw with that uid and no authenticate request.
C16_ServerErrorInvalidates ==
    [][\A k \in LegacyCallIds :
          /\ LegacyExecuteSettles(k) =>
                cachedUid' = IF legacyCalls'[k].answer.kind = "error" THEN JsNull ELSE cachedUid
          /\ (LegacyStarts(k) /\ (cachedUid = JsNull \/ cachedUid = JsInt(0))) =>
                /\ legacyCalls'[k].pc = "authenticate"
                /\ legacyRequest' = [id |-> legacyCounter', service |-> "common",
                                     method |-> "authenticate", uid |-> JsUndefined, by |-> k]
                /\ legacyCounter' > legacyCounter
          /\ (LegacyStarts(k) /\ cachedUid # JsNull /\ cachedUid # JsInt(0)) =>
                /\ legacyCalls'[k].pc = "execute"
                /\ legacyRequest' = [id |-> legacyCounter', service |-> "object",
                                     method |-> "execute_kw", uid |-> cachedUid, by |-> k]
                /\ legacyCounter' > legacyCounter
          /\ (legacyCalls[k].pc = "authenticate" /\ legacyCalls'[k].pc = "execute") =>
                /\ legacyRequest'.method = "execute_kw"
                /\ legacyRequest'.by = k
                /\ legacyRequest'.uid = legacyCalls'[k].uid
                /\ cachedUid' = legacyCalls'[k].uid
                /\ legacyRequest'.id > legacyCalls[k].sent]_vars

C16_Witness ==
    /\ legacyCalls[1].pc = "done"
    /\ legacyCalls[1].threw
    /\ legacyCalls[1].answer = ErrorBody("Access Denied")
    /\ legacyCalls[1].error = "Access Denied"
    /\ cachedUid = JsNull
    /\ legacyCalls[2].pc = "authenticate"
    /\ legacyRequest.method = "authenticate"
    /\ legacyRequest.id = 3

\* ---------------------------------------------------------------------
\* C17

InvalidArgumentErrors ==
    { "Invalid product id", "Product name cannot be empty", "Price must be a non-negative number" }

InvalidUpdate(in) ==
    /\ in.kind = "updateProductTemplate"
    /\ \/ ~(in.id.finite /\ in.id.twice % 2 = 0)
       \/ "name" \in DOMAIN in.values /\ in.values.name.t = "string"
            /\ \A i \in DOMAIN in.values.name.s : in.values.name.s[i] = " "
       \/ "list_price" \in DOMAIN in.values /\ in.values.list_price.t = "number"
            /\ (~in.values.list_price.finite \/ in.values.list_price.twice < 0)

OpStarts == op.pc = "idle" /\ op'.pc # "idle"

\* C17: when updateProductTemplate is called with an id that is not an
\* integer, a name that is blank after trimming, or a price that is
\* negative or not finite, the call fails at once with one of the
\* argument errors and no request is sent, whatever else the change set
\* holds and whether or not a session is active.
C17_UpdateValidatesBeforeSending ==
    [][(OpStarts /\ InvalidUpdate(op'.input)) =>
          /\ op'.pc = "done"
          /\ op'.outcome.threw
          /\ op'.outcome.error \in InvalidArgumentErrors
          /\ UNCHANGED <<rpcCounter, lastRequest, activeSession, client>>]_vars

C17_Witness ==
    /\ activeSession # Null
    /\ op.pc = "done"
    /\ op.input.kind = "updateProductTemplate"
    /\ op.input.id = JsInt(1)
    /\ DOMAIN op.input.values = {"name", "list_price", "active"}
    /\ op.input.values.name = JsText(<<"n", " ">>)
    /\ op.input.values.list_price = JsInt(-1)
    /\ op.outcome.threw
    /\ op.outcome.error = "Price must be a non-negative number"
    /\ lastRequest.by # ByOp

\* ---------------------------------------------------------------------
\* C18

LocaleNeutral == [context |-> JsObject([lang |-> JsBool(FALSE)])]

OpSends == lastRequest' # lastRequest /\ lastRequest'.by = ByOp

PrimarySucceeded ==
    /\ op.step = "primary"
    /\ lastResponse'.kind = "result"
    /\ ~Falsy(lastResponse'.value)

NamedUpdate(in) ==
    /\ in.kind = "updateProductTemplate"
    /\ "name" \in DOMAIN in.values
    /\ in.values.name.t = "string"

NewName(in) == JsObject([name |-> JsText(Trim(in.values.name.s))])

IsBaseRewrite(r, in) ==
    /\ r.args.model = "product.template" /\ r.args.method = "write"
    /\ r.args.args = <<JsArray(<<in.id>>), NewName(in)>>
    /\ r.args.kwargs = LocaleNeutral

IsVariantSearch(r, in, searchKwargs) ==
    /\ r.args.model = "product.product" /\ r.args.method = "search"
    /\ r.args.args = <<JsArray(<<Cond("product_tmpl_id", "=", in.id)>>)>>
    /\ r.args.kwargs = searchKwargs

IsVariantWrite(r, in, ids) ==
    /\ r.args.model = "product.product" /\ r.args.method = "write"
    /\ r.args.args = <<ids, NewName(in)>>
    /\ r.args.kwargs = LocaleNeutral

\* One step of updateProductTemplate after its primary write was sent,
\* where searchKwargs is what the variant search is to carry as kwargs.
C18Step(searchKwargs) ==
    (op.pc = "await" /\ op' # op /\ op.input.kind = "updateProductTemplate") =>
        LET in == op.input
            resp == lastResponse'
            answered == resp.kind = "result"
        IN  /\ op.step = "primary" =>
                IF PrimarySucceeded /\ NamedUpdate(in) THEN
                    IF activeSession # Null
                      THEN OpSends /\ IsBaseRewrite(lastRequest', in)
                      ELSE op' = Done(in, Returned(JsBool(TRUE))) /\ ~OpSends
                ELSE /\ ~OpSends
                     /\ op'.pc = "done"
                     /\ IF ~answered THEN op'.outcome.threw
                        ELSE op'.outcome = Returned(JsBool(~Falsy(resp.value)))
            /\ op.step = "base" =>
                IF activeSession # Null
                  THEN OpSends /\ IsVariantSearch(lastRequest', in, searchKwargs)
                  ELSE op' = Done(in, Returned(JsBool(TRUE))) /\ ~OpSends
            /\ op.step = "variantSearch" =>
                IF answered /\ IsArray(resp.value) /\ resp.value.items # <<>>
                   /\ activeSession # Null
                  THEN OpSends /\ IsVariantWrite(lastRequest', in, resp.value)
                  ELSE op' = Done(in, Returned(JsBool(TRUE))) /\ ~OpSends
            /\ op.step = "variantWrite" => op' = Done(in, Returned(JsBool(TRUE))) /\ ~OpSends

\* C18 (as stated): as C18 below, with the variant search carrying the
\* locale-neutral context like the two writes.
C18_PropagationAllLocaleNeutral == [][C18Step(LocaleNeutral)]_vars

\* C18: after the primary write of updateProductTemplate is answered, the
\* base-record re-write is sent only if the answer is a truthy result and
\* the change set has a name; otherwise nothing more is sent and the call
\* returns false or fails.  Whatever the answer to the re-write (result,
\* error, empty, transport failure), the variant search is sent next; a
\* non-empty array in answer to it is followed by the variant write.  The
\* re-write and the variant write carry the new name and the context
\* {lang: false}; the variant search carries no context.  Once the
\* propagation has begun the call returns true, whatever fails (also when
\* the session is gone and nothing more can be sent).
C18_NamePropagationBestEffort == [][C18Step(<<>>)]_vars

C18_Witness ==
    /\ op.pc = "done"
    /\ op.outcome = Returned(JsBool(TRUE))
    /\ op.input.kind = "updateProductTemplate"
    /\ lastRequest.by = ByOp
    /\ lastRequest.args.model = "product.product"
    /\ lastRequest.args.method = "write"
    /\ lastRequest.args.kwargs = LocaleNeutral
    /\ lastResponse = Failure
    /\ activeSession # Null

\* ---------------------------------------------------------------------
\* C19

GivenIds(in) == IF in.ids.t = "array" THEN { in.ids.items[i] : i \in DOMAIN in.ids.items } ELSE { in.ids }

PositiveIntegers(values) ==
    { v \in values : v.t = "number" /\ v.finite /\ v.twice % 2 = 0 /\ v.twice > 0 }

\* C19: a call of deleteProductTemplates whose input holds no positive
\* integer fails at once with 'Invalid product id' and sends nothing,
\* with or without a session; otherwise (with a session) it sends one
\* unlink request on product.template whose id list holds each positive
\* integer of the input exactly once and nothing else.
C19_DeleteDispatchesDistinctPositiveIds ==
    [][(OpStarts /\ op'.input.kind = "deleteProductTemplates") =>
          LET wanted == PositiveIntegers(GivenIds(op'.input))
          IN  IF wanted = {} THEN
                  /\ op' = Done(op'.input, Threw("Invalid product id"))
                  /\ UNCHANGED <<rpcCounter, lastRequest>>
              ELSE IF activeSession = Null THEN
                  /\ op'.pc = "done" /\ op'.outcome.threw
                  /\ UNCHANGED <<rpcCounter, lastRequest>>
              ELSE
                  /\ op'.pc = "await"
                  /\ OpSends
                  /\ lastRequest'.args.model = "product.template"
                  /\ lastRequest'.args.method = "unlink"
                  /\ Len(lastRequest'.args.args) = 1
                  /\ lastRequest'.args.args[1].t = "array"
                  /\ LET sent == lastRequest'.args.args[1].items
                     IN  /\ { sent[i] : i \in DOMAIN sent } = wanted
                         /\ Len(sent) = Cardinality(wanted)]_vars

C19_Witness ==
    /\ op.pc = "await"
    /\ op.input.kind = "deleteProductTemplates"
    /\ op.input.ids = JsArray(<<JsInt(7), JsInt(0), JsInt(7)>>)
    /\ lastRequest.by = ByOp
    /\ lastRequest.args.method = "unlink"
    /\ lastRequest.args.args = <<JsArray(<<JsInt(7)>>)>>

\* ---------------------------------------------------------------------
\* C20

Given(o, key) == key \in DOMAIN o

NonBlankSearch(o) ==
    Given(o, "search") /\ \E i \in DOMAIN o.search.s : o.search.s[i] # " "

Term(o) == JsText(Trim(o.search.s))

ExpectedDomain(o) ==
    <<Cond("sale_ok", "=", JsBool(TRUE))>>
    \o (IF Given(o, "includeInactive") /\ o.includeInactive = JsBool(TRUE)
          THEN <<>> ELSE <<Cond("active", "=", JsBool(TRUE))>>)
    \o (IF Given(o, "categoryId") THEN <<Cond("categ_id", "child_of", o.categoryId)>> ELSE <<>>)
    \o (IF NonBlankSearch(o)
          THEN <<Or, Cond("name", "ilike", Term(o)), Cond("default_code", "ilike", Term(o))>>
          ELSE <<>>)

OrHasTwoOperands(domain) ==
    \A i \in DOMAIN domain :
        domain[i] = Or =>
            /\ i + 2 <= Len(domain)
            /\ domain[i + 1].t = "condition"
            /\ domain[i + 2].t = "condition"

\* C20: for every combination of options, the request fetchProductTemplates
\* sends is a search_read on product.template whose domain is sale_ok =
\* true, then active = true unless includeInactive is true, then categ_id
\* child_of the category when one is given, then, exactly when the search
\* text is not blank, "|" followed by name ilike term and default_code
\* ilike term, with the trimmed text as term; its limit is the given one
\* or 40 and its order the given one or 'write_date desc'.  Every "|" in
\* the domain is followed by two conditions.
C20_FetchQuery ==
    [][(OpStarts /\ op'.input.kind = "fetchProductTemplates" /\ activeSession # Null) =>
          LET o == IF Given(op'.input, "options") THEN op'.input.options ELSE <<>>
              sent == lastRequest'.args
          IN  /\ OpSends
              /\ sent.model = "product.template"
              /\ sent.method = "search_read"
              /\ sent.args = <<JsArray(ExpectedDomain(o))>>
              /\ OrHasTwoOperands(sent.args[1].items)
              /\ (\E i \in DOMAIN sent.args[1].items : sent.args[1].items[i] = Or)
                    <=> NonBlankSearch(o)
              /\ sent.kwargs.limit = IF Given(o, "limit") THEN o.limit ELSE JsInt(40)
              /\ sent.kwargs.order = IF Given(o, "order") THEN o.order ELSE JsWord("write_date desc")]_vars

C20_Witness ==
    /\ op.pc = "await"
    /\ op.input.kind = "fetchProductTemplates"
    /\ Given(op.input, "options")
    /\ DOMAIN op.input.options = {"search", "categoryId", "includeInactive"}
    /\ op.input.options.search = JsText(<<" ", "a", " ">>)
    /\ op.input.options.includeInactive = JsBool(TRUE)
    /\ lastRequest.by = ByOp
    /\ lastRequest.args.args =
          <<JsArray(<<Cond("sale_ok", "=", JsBool(TRUE)),
                      Cond("categ_id", "child_of", op.input.options.categoryId),
                      Or,
                      Cond("name", "ilike", JsText(<<"a">>)),
                      Cond("default_code", "ilike", JsText(<<"a">>))>>)>>
    /\ lastRequest.args.kwargs.limit = JsInt(40)
    /\ lastRequest.args.kwargs.order = JsWord("write_date desc")

(***************************************************************************)
(* Server address normalization: claims.                                   *)
(***************************************************************************)
\* The scheme the typed address names, https when it names none.
GivenScheme(raw) ==
    IF StartsWith(ToLower(Trim(raw)), HttpsPrefix) THEN HttpsPrefix
    ELSE IF StartsWith(ToLower(Trim(raw)), HttpPrefix) THEN HttpPrefix
    ELSE <<>>

SchemeOrHttps(raw) == IF GivenScheme(raw) = <<>> THEN HttpsPrefix ELSE GivenScheme(raw)

\* The host the typed address names: what follows the scheme, up to the
\* first of / ? #.
GivenHost(raw) == TakeUntil(Drop(Trim(raw), Len(GivenScheme(raw))), {"/", "?", "#"})

\* Two slashes in a row.
HasDuplicateSlash(s) == \E i \in 1..(Len(s) - 1) : s[i] = "/" /\ s[i + 1] = "/"

\* Empty, or a path from the root with no duplicate slash, no trailing
\* slash, no query and no fragment.
CleanPath(p) ==
    \/ p = <<>>
    \/ /\ Head(p) = "/"
       /\ p[Len(p)] # "/"
       /\ ~HasDuplicateSlash(p)
       /\ ~Contains(p, "?")
       /\ ~Contains(p, "#")

\* C21: an address that is empty after trimming or names no host is
\* rejected; every other address is accepted and normalizes to
\* scheme://host followed by a clean path, the scheme being https when the
\* address names none.
C21_NormalizedAddress ==
    pout # Null =>
        IF Trim(pin) = <<>> \/ GivenHost(pin) = <<>>
        THEN ~pout.normalized.ok
        ELSE /\ pout.normalized.ok
             /\ StartsWith(pout.normalized.url, SchemeOrHttps(pin) \o GivenHost(pin))
             /\ CleanPath(Drop(pout.normalized.url, Len(SchemeOrHttps(pin) \o GivenHost(pin))))

\* The address my.co/app/?x=1#db=acme, typed with blanks around it, was
\* normalized to https://my.co/app.
C21_Witness ==
    /\ pin = <<" ", "m", "y", ".", "c", "o", "/", "a", "p", "p", "/", "?", "x", "=", "1", "#", "d", "b", "=", "a", "c", "m", "e", " ">>
    /\ pout # Null
    /\ pout.normalized.ok
    /\ pout.normalized.url = <<"h", "t", "t", "p", "s", ":", "/", "/", "m", "y", ".", "c", "o", "/", "a", "p", "p">>

(***************************************************************************)
(* Response bodies: claims.                                                *)
(***************************************************************************)
\* A text that is there and not empty.
Present(v) == v.t = "string" /\ v.word # ""

\* The three texts a server-reported error may carry.
ServerMessage(e) == Field(e, "message")
DataMessage(e) ==
    IF Field(e, "data").t = "object" THEN Field(Field(e, "data"), "message") ELSE JsUndefined
DebugTrace(e) ==
    IF Field(e, "data").t = "object" THEN Field(Field(e, "data"), "debug") ELSE JsUndefined

Separator == " | "

\* The present ones among the three texts, in that order, with the
\* separator between them; the fixed text when none is present.
ExpectedText(e) ==
    LET m == ServerMessage(e)
        d == DataMessage(e)
        g == DebugTrace(e)
    IN  CASE Present(m) /\ Present(d) /\ Present(g) ->
                m.word \o Separator \o d.word \o Separator \o g.word
          [] Present(m) /\ Present(d) /\ ~Present(g) -> m.word \o Separator \o d.word
          [] Present(m) /\ ~Present(d) /\ Present(g) -> m.word \o Separator \o g.word
          [] ~Present(m) /\ Present(d) /\ Present(g) -> d.word \o Separator \o g.word
          [] Present(m) /\ ~Present(d) /\ ~Present(g) -> m.word
          [] ~Present(m) /\ Present(d) /\ ~Present(g) -> d.word
          [] ~Present(m) /\ ~Present(d) /\ Present(g) -> g.word
          [] OTHER -> UnknownError

\* The response body to an operation's first request arrives.
BodyArrives ==
    /\ op.pc = "await" /\ op.step = "primary"
    /\ op' # op
    /\ lastResponse'.kind # "failure"

\* The body delivered carries an error.
CarriesError(resp) == resp.error.t = "object"
\* The body delivered carries a result.
CarriesResult(resp) == resp.value # JsUndefined

\* C22: when the body that answers an operation's request carries an error,
\* the operation fails and the text of its failure is the present parts
\* among the error's message, its data's message and its data's debug
\* trace, in that order, joined by " | " (the text "Unknown Odoo error"
\* when none is present).
C22_ErrorTextJoinsPresentParts ==
    [][(BodyArrives /\ CarriesError(lastResponse')) =>
          /\ op'.pc = "done"
          /\ op'.outcome = Threw(ExpectedText(lastResponse'.error))]_vars

\* The server answered {error: {message: "Access Denied", data: {debug:
\* "trace..."}}} and the operation failed with both texts.
C22_Witness ==
    /\ op.pc = "done"
    /\ lastResponse # Null
    /\ "error" \in DOMAIN lastResponse
    /\ lastResponse.error =
          JsObject([message |-> JsWord("Access Denied"),
                    data |-> JsObject([debug |-> JsWord("trace...")])])
    /\ op.outcome = Threw("Access Denied | trace...")

EmptyResponse == "Unexpected empty response from Odoo"

\* What the operation is after its first request was answered with a
\* result: the call returned, so the operation returned or went on.
Went(o) == o.pc = "await" \/ (o.pc = "done" /\ ~o.outcome.threw)

\* C23: a body with neither an error nor a result makes the call fail with
\* the empty-response text; a body with an error makes it fail with the
\* text of the error, also when a result is present; a body with a result
\* and no error makes the call return, and a record query handed a list
\* returns that list.
C23_ErrorBeforeResult ==
    [][BodyArrives =>
          LET resp == lastResponse'
          IN  /\ (~CarriesError(resp) /\ ~CarriesResult(resp)) =>
                    op' = Done(op.input, Threw(EmptyResponse))
              /\ CarriesError(resp) =>
                    /\ op' = Done(op.input, Threw(ExpectedText(resp.error)))
                    /\ op'.outcome.error # EmptyResponse
              /\ (~CarriesError(resp) /\ CarriesResult(resp)) =>
                    /\ Went(op')
                    /\ (op.input.kind = "fetchProductTemplates" /\ IsArray(resp.value)) =>
                          op'.outcome = Returned(resp.value)]_vars

\* A body with both an error and a result was delivered, and the operation
\* failed with the error's text.
C23_Witness ==
    /\ op.pc = "done"
    /\ lastResponse # Null
    /\ "error" \in DOMAIN lastResponse
    /\ CarriesError(lastResponse)
    /\ lastResponse.value = JsArray(<<MenuRecord>>)
    /\ op.outcome = Threw(ExpectedText(lastResponse.error))

(***************************************************************************)
(* The stored profile: claims.                                             *)
(***************************************************************************)
\* The profile read of sign-in c is answered and the session is stored.
ProfileStored(c) == calls[c].pc = "read" /\ calls'[c].pc = "resolved"

\* The user record in the answer, an empty record when there is none.
AnsweredRecord(resp) ==
    IF IsArray(resp.value) /\ Len(resp.value.items) > 0 THEN resp.value.items[1]
    ELSE JsObject(<<>>)

\* The trimmed text of a field when it is a text and not blank.
TextOr(v, fallback) ==
    IF v.t = "string" /\ Trim(v.s) # <<>> THEN Trim(v.s) ELSE fallback

\* The record's login, trimmed, when it is a text; else nothing.
RecordLogin(rec) ==
    IF Field(rec, "login").t = "string" THEN Trim(Field(rec, "login").s) ELSE Undefined

\* The stored profile's id is the authenticated uid, its name the record's
\* trimmed name or else the username submitted, and its email the record's
\* trimmed email or else emailFallback of the username and the record.
C24Step(emailFallback(_, _)) ==
    \A c \in CallIds :
        ProfileStored(c) =>
            LET rec == AnsweredRecord(lastResponse')
                username == calls[c].params.username
                stored == activeSession'.user
            IN  /\ stored = calls'[c].user
                /\ stored.id = calls[c].uid
                /\ stored.name = TextOr(Field(rec, "name"), username)
                /\ stored.email = TextOr(Field(rec, "email"), emailFallback(username, rec))

SubmittedUsername(username, rec) == username
LoginOfRecord(username, rec) == RecordLogin(rec)

\* C24 as stated: a blank email falls back to the submitted username.
C24_EmailFallsBackToUsername == [][C24Step(SubmittedUsername)]_vars

\* C24: the stored profile has the authenticated uid as id, the record's
\* trimmed name when that is a non-blank text and otherwise the submitted
\* username as name, and the record's trimmed email when that is a
\* non-blank text and otherwise the record's trimmed login (nothing when
\* the record has no login text) as email.
C24_EmailFallsBackToRecordLogin == [][C24Step(LoginOfRecord)]_vars

\* A session was stored from a record with no name, no email and the login
\* "l": the name is the username typed, the email is the record's login.
C24_Witness ==
    /\ activeSession # Null
    /\ calls[1].pc = "done"
    /\ lastResponse = ResultBody(JsArray(<<JsObject([name |-> JsBool(FALSE), email |-> JsBool(FALSE),
                                                     login |-> JsText(<<" ", "l", " ">>)])>>))
    /\ activeSession.user.name = <<"u">>
    /\ activeSession.user.email = <<"l">>
    /\ user = activeSession.user

\* The operations that return the records of a search_read as a list.
RecordQueries ==
    { "fetchProductTemplates", "searchProductTemplates", "searchMovies",
      "fetchRootMenus", "fetchChildMenus" }

\* C25: a record query whose request is answered, without an error, by a
\* result that is not a list returns the empty list and does not fail.
C25_NonListResultGivesEmptyList ==
    [][(/\ BodyArrives
        /\ op.input.kind \in RecordQueries
        /\ ~CarriesError(lastResponse')
        /\ CarriesResult(lastResponse')
        /\ ~IsArray(lastResponse'.value))
          => op' = Done(op.input, Returned(JsArray(<<>>)))]_vars

\* searchMovies was answered with a single record instead of a list and
\* returned the empty list.
C25_Witness ==
    /\ op.pc = "done"
    /\ op.input.kind = "searchMovies"
    /\ lastResponse # Null
    /\ lastResponse.kind = "result"
    /\ lastResponse.value = MenuRecord
    /\ op.outcome = Returned(JsArray(<<>>))

(***************************************************************************)
(* Sign-out and sign-ins in flight: claims.                                *)
(***************************************************************************)
\* A signIn is invoked in this step.
SignInInvoked == \E c \in CallIds : calls[c].pc = "idle" /\ calls'[c].pc # "idle"

\* The provider is unauthenticated without a session and the client has no
\* active session.
SignedOut(st, se, as) == st = "unauthenticated" /\ se = Null /\ as = Null

\* C26: once signOut has been called, the provider stays unauthenticated
\* with no session and the client has no active session until signIn is
\* invoked again.  Stated for the steps taken right after a signOut (the
\* latest event was a signOut): unless the step invokes signIn, it leaves
\* the provider and the client signed out.
C26_SignedOutUntilNextSignIn ==
    [][(sinceSignOut >= 1 /\ SignedOut(status, session, activeSession) /\ ~SignInInvoked)
          => SignedOut(status', session', activeSession')]_vars

\* An update that is waiting for an answer sends its next request.
FollowUpSent ==
    /\ op.pc = "await" /\ op.input.kind = "updateProductTemplate"
    /\ op'.pc = "await" /\ op'.step # op.step

\* Two requests go to the same server with the same credentials.
SameServerAndCredentials(r1, r2) ==
    /\ r1.baseURL = r2.baseURL
    /\ r1.args.database = r2.args.database
    /\ r1.args.uid = r2.args.uid
    /\ r1.args.password = r2.args.password

\* C27: all requests of one updateProductTemplate invocation go to the same
\* server with the same credentials.  Stated for two requests in a row of
\* the update with no request of a sign-in between them (the latest request
\* is still the update's): the next one goes where the latest one went.
C27_UpdateKeepsItsSession ==
    [][(FollowUpSent /\ lastRequest.by = ByOp)
          => SameServerAndCredentials(lastRequest, lastRequest')]_vars

(***************************************************************************)
(* The order of a sign-in: claims.                                         *)
(***************************************************************************)
\* The profile read of sign-in c is answered.
ReadAnswered(c) == calls[c].pc = "read" /\ calls'[c].pc # "read"

\* A transport failure, a server-reported error or an empty body.
FailedAnswer(resp) == resp.kind \in {"failure", "error", "empty"}

\* C28: a sign-in sends its profile read only after its authenticate request
\* succeeded, and the session is stored only by the step in which the
\* profile read succeeds; when the profile read fails (transport failure,
\* server-reported error or empty body) the sign-in fails, and neither that
\* step nor the provider's catch changes the active session or the cached
\* transport.
C28_SessionStoredAfterBothRequests ==
    [][/\ \A c \in CallIds :
            /\ (calls[c].pc # "read" /\ calls'[c].pc = "read") =>
                  /\ calls[c].pc = "authenticate"
                  /\ lastResponse'.kind = "result"
            /\ (ReadAnswered(c) /\ FailedAnswer(lastResponse')) =>
                  /\ calls'[c].pc = "rejected"
                  /\ activeSession' = activeSession
                  /\ client' = client
            /\ (calls[c].pc = "rejected" /\ calls'[c].pc # "rejected") =>
                  /\ calls'[c].pc = "failed"
                  /\ status' = "unauthenticated"
                  /\ activeSession' = activeSession
                  /\ client' = client
       /\ (activeSession' # activeSession \/ client' # client) =>
            \E c \in CallIds :
                /\ calls[c].pc = "read" /\ calls'[c].pc = "resolved"
                /\ ~FailedAnswer(lastResponse')
                /\ activeSession'.ref = c
                /\ activeSession'.uid = calls[c].uid
                /\ client' = calls[c].httpClient]_vars

\* The first sign-in stored its session; the second authenticated, got an
\* empty body for its profile read and failed: the first session and its
\* transport are still the stored ones.
C28_Witness ==
    /\ calls[1].pc = "done"
    /\ calls[2].pc = "failed"
    /\ lastResponse = EmptyBody
    /\ authError = "Unexpected empty response from Odoo"
    /\ activeSession # Null /\ activeSession.ref = 1
    /\ client # Null /\ client.ref = 1

\* C29: in every state of the provider, when status is authenticated the
\* session and the user are both set and the user is the profile of that
\* session's sign-in; when status is unauthenticated both are absent.
C29_ProviderStateConsistent ==
    /\ status = "authenticated" =>
          /\ session # Null
          /\ user # Null
          /\ user = session.user
    /\ status = "unauthenticated" => (session = Null /\ user = Null)

\* The first sign-in failed, the second succeeded: the provider is
\* authenticated with the second sign-in's session and user.
C29_Witness ==
    /\ calls[1].pc = "failed" /\ calls[2].pc = "done"
    /\ status = "authenticated"
    /\ session # Null /\ session.ref = 2
    /\ user = session.user


(***************************************************************************)
(* Search screen: progress.  The timers of the event loop fire once due,   *)
(* time passes while a timer waits, and every sent request settles.        *)
(***************************************************************************)
TimerWaits ==
    \E e \in DOMAIN effects : effects[e].timer = "pending" /\ now < effects[e].due

\* search.tsx:181-182  setTimeout(runSearch, delay): the delay elapses
Elapse ==
    /\ TimerWaits
    /\ now' = now + TickMs
    /\ UNCHANGED <<query, results, isLoading, error, effects, lateSettles, mounted>>
    /\ UNCHANGED nonSearchVars

\* search.tsx:163-178  the request of effect e settles, either way
RequestSettles(e) ==
    \/ \E p \in Products(e) : RequestResolves(e, p)
    \/ \E m \in Failures : RequestRejects(e, m)

LiveSearchNext ==
    \/ \E q \in Queries : SetQuery(q)
    \/ Unmount
    \/ Elapse
    \/ \E e \in DOMAIN effects : TimerFires(e)
    \/ \E e \in DOMAIN effects : \E p \in Products(e) : RequestResolves(e, p)
    \/ \E e \in DOMAIN effects : \E m \in Failures : RequestRejects(e, m)

LiveSearchSpec ==
    /\ SearchInit
    /\ [][LiveSearchNext]_vars
    /\ WF_vars(Elapse)
    /\ \A e \in 1..(MaxEdits + 1) : WF_vars(e \in DOMAIN effects /\ TimerFires(e))
    /\ \A e \in 1..(MaxEdits + 1) : WF_vars(e \in DOMAIN effects /\ RequestSettles(e))

\* The screen is at rest on the outcome of the request for the current query.
FinalOutcomeShown ==
    /\ ~isLoading
    /\ Settled(LastEffect)
    /\ effects[LastEffect].request = "resolved" =>
           (results = effects[LastEffect].response /\ error = NullStr)
    /\ effects[LastEffect].request = "rejected" =>
           (results = <<>> /\ error \in Failures)

\* C30: search screen liveness.  If the screen stays mounted, then, once the
\* query has stopped changing and with every sent request settling, from
\* some point on isLoading is false and results (or error) show the outcome
\* of the request for the final query, whatever earlier requests were
\* superseded while in flight.
C30_FinalQueryOutcomeShown == ([]mounted) => <>[]FinalOutcomeShown

\* C30 witness: the request for "ab" was superseded in flight by "abc" and
\* failed after the request for "abc" had resolved with a product; the
\* screen is not loading and shows the product for "abc".
C30_Witness ==
    /\ mounted
    /\ LastEffect >= 2
    /\ query = <<"a", "b", "c">>
    /\ effects[LastEffect].request = "resolved"
    /\ effects[LastEffect].response # <<>>
    /\ \E e \in 1..(LastEffect - 1) :
          /\ effects[e].trimmed = <<"a", "b">>
          /\ effects[e].request = "rejected"
          /\ e \in lateSettles
    /\ ~isLoading
    /\ results = effects[LastEffect].response
    /\ error = NullStr

====
